---------------------------- MODULE Spec2Model ----------------------------
(***************************************************************************)
(* Model of the sensitive-field protection code of the SecureBank          *)
(* repository: src/lib/crypto.ts (AES-256-GCM encryption of SSNs and the   *)
(* HMAC lookup digest).                                                    *)
(*                                                                         *)
(* Representation.  A JavaScript string is a sequence of UTF-16 code units *)
(* (integers 0..65535); a Buffer is a sequence of bytes (0..255).  The     *)
(* conversions the code performs on them (UTF-8, base64, hex) are computed *)
(* the way Node computes them.                                             *)
(*                                                                         *)
(* Idealisations.  AES-256-GCM is modelled as a stream cipher (XOR with a  *)
(* keystream determined by key and nonce) with an ideal MAC: the 16-byte   *)
(* tag is a collision-free function of (key, nonce, ciphertext) for the    *)
(* ciphertext lengths of the model.  HMAC-SHA256 is a collision-free       *)
(* function of (key, message).  crypto.randomBytes never returns a value   *)
(* it returned before.                                                     *)
(***************************************************************************)
EXTENDS Integers, Sequences, FiniteSets, TLC

\* src/lib/crypto.ts:7-9
KEY_LENGTH == 32
IV_LENGTH == 16
TAG_LENGTH == 16

\* Bounds of the model.
MaxPlainLen == 2
MaxNonce == 3
MaxCalls == 3

\* process.env.X when the variable is not set (no code unit is negative).
Undefined == <<-1>>

\* JavaScript truthiness of an environment value: `if (envKey)`, `if (!HMAC_KEY)`.
Truthy(v) == v # Undefined /\ v # <<>>

---------------------------------------------------------------------------
(* Byte and string helpers *)

RECURSIVE XorBits(_, _, _)
XorBits(a, b, n) ==
  IF n = 0 THEN 0
  ELSE ((a + b) % 2) + 2 * XorBits(a \div 2, b \div 2, n - 1)

\* Bitwise exclusive or of two bytes.
Xor(a, b) == XorBits(a, b, 8)

\* Buffer.subarray(start, end) with Node's index rules: negative indices count
\* from the end, indices are clamped, an empty range gives an empty buffer.
\* Indices are 0-based, end exclusive.
ClampIndex(i, n) == IF i < 0 THEN (IF n + i < 0 THEN 0 ELSE n + i) ELSE (IF i > n THEN n ELSE i)

Subarray(buf, start, end) ==
  LET s == ClampIndex(start, Len(buf))
      e == ClampIndex(end, Len(buf))
  IN IF e <= s THEN <<>> ELSE SubSeq(buf, s + 1, e)

\* Buffer.alloc(size, fill) with a string fill: the fill bytes repeated.
BufferAlloc(size, fill) == [i \in 1..size |-> fill[((i - 1) % Len(fill)) + 1]]

IsHighSurrogate(c) == c >= 55296 /\ c <= 56319
IsLowSurrogate(c) == c >= 56320 /\ c <= 57343
IsSurrogate(c) == c >= 55296 /\ c <= 57343

\* A string with no unpaired surrogate (a well-formed UTF-16 string).
RECURSIVE IsWellFormed(_)
IsWellFormed(s) ==
  IF s = <<>> THEN TRUE
  ELSE IF IsHighSurrogate(s[1])
       THEN Len(s) >= 2 /\ IsLowSurrogate(s[2]) /\ IsWellFormed(SubSeq(s, 3, Len(s)))
       ELSE ~IsLowSurrogate(s[1]) /\ IsWellFormed(Tail(s))

\* Utf8Encode with the bug of encoding as 'latin1': one byte per code unit.
Utf8Encode_latin1(s) == [i \in 1..Len(s) |-> s[i] % 256]

\* string -> bytes, encoding 'utf8': a surrogate pair becomes one 4-byte
\* sequence, an unpaired surrogate becomes U+FFFD (EF BF BD).
Utf8Unit(s, i) ==
  LET c == s[i] IN
    IF c < 128 THEN <<c>>
    ELSE IF c < 2048 THEN <<192 + (c \div 64), 128 + (c % 64)>>
    ELSE IF IsHighSurrogate(c) /\ i < Len(s) /\ IsLowSurrogate(s[i + 1])
      THEN LET cp == 65536 + (c - 55296) * 1024 + (s[i + 1] - 56320)
           IN <<240 + (cp \div 262144), 128 + ((cp \div 4096) % 64),
                128 + ((cp \div 64) % 64), 128 + (cp % 64)>>
    ELSE IF IsLowSurrogate(c) /\ i > 1 /\ IsHighSurrogate(s[i - 1]) THEN <<>>
    ELSE IF IsSurrogate(c) THEN <<239, 191, 189>>
    ELSE <<224 + (c \div 4096), 128 + ((c \div 64) % 64), 128 + (c % 64)>>

\* parts[lo] \o ... \o parts[hi]
RECURSIVE ConcatRange(_, _, _)
ConcatRange(parts, lo, hi) ==
  IF lo > hi THEN <<>>
  ELSE IF lo = hi THEN parts[lo]
  ELSE ConcatRange(parts, lo, (lo + hi) \div 2) \o ConcatRange(parts, ((lo + hi) \div 2) + 1, hi)

Utf8Encode(s) == ConcatRange([i \in 1..Len(s) |-> Utf8Unit(s, i)], 1, Len(s))

IsCont(b) == b >= 128 /\ b <= 191

\* bytes -> string, encoding 'utf8'; a byte that starts no valid sequence
\* decodes to U+FFFD.
RECURSIVE Utf8Decode(_)
Utf8Decode(b) ==
  IF b = <<>> THEN <<>>
  ELSE LET b1 == b[1]
           n == Len(b)
           cp2 == (b1 - 192) * 64 + (b[2] - 128)
           cp3 == (b1 - 224) * 4096 + (b[2] - 128) * 64 + (b[3] - 128)
           cp4 == (b1 - 240) * 262144 + (b[2] - 128) * 4096 + (b[3] - 128) * 64 + (b[4] - 128)
       IN
    IF b1 < 128 THEN <<b1>> \o Utf8Decode(Tail(b))
    ELSE IF b1 >= 194 /\ b1 <= 223 /\ n >= 2 /\ IsCont(b[2])
      THEN <<cp2>> \o Utf8Decode(SubSeq(b, 3, n))
    ELSE IF b1 >= 224 /\ b1 <= 239 /\ n >= 3 /\ IsCont(b[2]) /\ IsCont(b[3])
            /\ cp3 >= 2048 /\ ~IsSurrogate(cp3)
      THEN <<cp3>> \o Utf8Decode(SubSeq(b, 4, n))
    ELSE IF b1 >= 240 /\ b1 <= 244 /\ n >= 4 /\ IsCont(b[2]) /\ IsCont(b[3]) /\ IsCont(b[4])
            /\ cp4 >= 65536 /\ cp4 <= 1114111
      THEN <<55296 + ((cp4 - 65536) \div 1024), 56320 + ((cp4 - 65536) % 1024)>>
           \o Utf8Decode(SubSeq(b, 5, n))
    ELSE <<65533>> \o Utf8Decode(Tail(b))

\* The base64 alphabet: value 0..63 -> character code.
B64Char(v) ==
  IF v < 26 THEN 65 + v
  ELSE IF v < 52 THEN 97 + (v - 26)
  ELSE IF v < 62 THEN 48 + (v - 52)
  ELSE IF v = 62 THEN 43 ELSE 47

\* Node's decoding table: the standard alphabet and the URL-safe '-' and '_';
\* every other character (whitespace, '=', anything else) is not a digit (-1).
Unbase64(c) ==
  IF c >= 65 /\ c <= 90 THEN c - 65
  ELSE IF c >= 97 /\ c <= 122 THEN c - 97 + 26
  ELSE IF c >= 48 /\ c <= 57 THEN c - 48 + 52
  ELSE IF c = 43 \/ c = 45 THEN 62
  ELSE IF c = 47 \/ c = 95 THEN 63
  ELSE -1

\* buf.toString('base64'): standard alphabet, '=' padding.  Character j of
\* the output belongs to the group of three bytes g.
Base64Encode(b) ==
  LET n == Len(b)
      byte(i) == IF i <= n THEN b[i] ELSE 0
      char(j) ==
        LET g == 3 * ((j - 1) \div 4)
            r == (j - 1) % 4
        IN IF r = 0 THEN B64Char(byte(g + 1) \div 4)
           ELSE IF r = 1 THEN B64Char((byte(g + 1) % 4) * 16 + (byte(g + 2) \div 16))
           ELSE IF r = 2
             THEN (IF g + 2 > n THEN 61
                   ELSE B64Char((byte(g + 2) % 16) * 4 + (byte(g + 3) \div 64)))
           ELSE (IF g + 3 > n THEN 61 ELSE B64Char(byte(g + 3) % 64))
  IN [j \in 1..(4 * ((n + 2) \div 3)) |-> char(j)]

\* The base64 digits Node reads from a string: decoding stops at the first
\* '=', characters outside the alphabet are skipped.
DigitsOf(legal) == [i \in 1..Len(legal) |-> Unbase64(legal[i])]

FirstPad(s, pads) == IF pads = {} THEN Len(s) + 1 ELSE CHOOSE i \in pads : \A j \in pads : i <= j

Base64Digits(s) ==
  DigitsOf(SelectSeq(SubSeq(s, 1, FirstPad(s, {i \in 1..Len(s) : s[i] = 61}) - 1),
                     LAMBDA c : Unbase64(c) >= 0))

\* Four digits give three bytes, a final group of three digits two bytes, of
\* two digits one byte, a single final digit none.
Base64Bytes(d) ==
  LET byte(j) ==
        LET g == 4 * ((j - 1) \div 3)
            r == (j - 1) % 3
        IN IF r = 0 THEN (d[g + 1] * 4 + (d[g + 2] \div 16)) % 256
           ELSE IF r = 1 THEN ((d[g + 2] % 16) * 16 + (d[g + 3] \div 4)) % 256
           ELSE ((d[g + 3] % 4) * 64 + d[g + 4]) % 256
  IN [j \in 1..((Len(d) * 3) \div 4) |-> byte(j)]

\* Buffer.from(s, 'base64'): never throws.
Base64Decode(s) == Base64Bytes(Base64Digits(s))

\* A string every strict decoder accepts: only alphabet characters, length a
\* multiple of 4, at most two '=' and only at the end.
IsValidBase64(s) ==
  /\ Len(s) % 4 = 0
  /\ \A i \in 1..Len(s) :
       \/ (Unbase64(s[i]) >= 0 /\ s[i] # 45 /\ s[i] # 95)
       \/ (s[i] = 61 /\ i >= Len(s) - 1 /\ (i = Len(s) \/ s[Len(s)] = 61))

---------------------------------------------------------------------------
(* Hex, as cipher.update(.., 'hex') / Buffer.from(.., 'hex') / digest('hex') *)

HexChar(v) == IF v < 10 THEN 48 + v ELSE 97 + (v - 10)

Unhex(c) ==
  IF c >= 48 /\ c <= 57 THEN c - 48
  ELSE IF c >= 97 /\ c <= 102 THEN c - 97 + 10
  ELSE IF c >= 65 /\ c <= 70 THEN c - 65 + 10
  ELSE -1

HexEncode(b) ==
  [j \in 1..(2 * Len(b)) |->
     IF j % 2 = 1 THEN HexChar(b[(j + 1) \div 2] \div 16) ELSE HexChar(b[j \div 2] % 16)]

\* Buffer.from(s, 'hex'): stops at the first pair that is not two hex digits.
HexDecode(s) ==
  LET pairs == Len(s) \div 2
      bad == {k \in 1..pairs : Unhex(s[2 * k - 1]) < 0 \/ Unhex(s[2 * k]) < 0}
      n == IF bad = {} THEN pairs ELSE (CHOOSE k \in bad : \A j \in bad : k <= j) - 1
  IN [k \in 1..n |-> Unhex(s[2 * k - 1]) * 16 + Unhex(s[2 * k])]

---------------------------------------------------------------------------
(* The cryptographic primitives, idealised *)

\* A number that identifies a byte sequence (distinct for the keys, nonces
\* and messages of the model).
\* The polynomial hash f(i) = (31 * f(i - 1) + b[i] + 1) % 1000003 of the
\* bytes lo..hi of b, continued from the value f0; f(0) = 7.  It is computed
\* 16 bytes at a time.
RECURSIVE FpBlock(_, _, _, _)
FpBlock(f0, b, lo, hi) ==
  IF hi < lo THEN f0
  ELSE (FpBlock(f0, b, lo, hi - 1) * 31 + b[hi] + 1) % 1000003

RECURSIVE FpChain(_, _, _, _)
FpChain(f0, b, lo, n) ==
  IF f0 < 0 \/ lo > n THEN f0
  ELSE FpChain(FpBlock(f0, b, lo, IF lo + 15 < n THEN lo + 15 ELSE n), b, lo + 16, n)

FingerprintUpTo(b, n) == FpChain(7, b, 1, n)

Fingerprint(b) == FingerprintUpTo(b, Len(b))

\* The three bytes of a fingerprint.
FpBytes(f) == <<f % 256, (f \div 256) % 256, (f \div 65536) % 256>>

\* Sum of the bytes of b at positions congruent to q modulo m.
RECURSIVE FoldAt(_, _, _)
FoldAt(b, q, m) ==
  IF Len(b) < q THEN 0
  ELSE b[q] + FoldAt(b, q + m, m)

\* AES-256 in counter mode: byte i of the keystream that starts at ks0.
KeyStream(ks0, i) == (ks0 + 29 * i) % 256

XorKeyStream(ks0, data) == [i \in 1..Len(data) |-> Xor(data[i], KeyStream(ks0, i))]

\* cipher.update + cipher.final / decipher.update: XOR with the keystream of
\* (key, iv).
GcmCrypt(key, iv, data) == XorKeyStream(Fingerprint(key) + 3 * Fingerprint(iv), data)

\* The 16-byte GCM authentication tag of ciphertext ct under (key, iv):
\* key, iv, length and content of ct all enter it.
TagOf(raw) == [p \in 1..16 |-> (raw[p] + 37 * p) % 256]

GcmTag(key, iv, ct) ==
  TagOf(FpBytes(Fingerprint(key)) \o FpBytes(Fingerprint(iv)) \o <<Len(ct) % 256>>
        \o [q \in 1..9 |-> FoldAt(ct, q, 9) % 256])

\* setAuthTag accepts these tag lengths for GCM.
ValidGcmTagLengths == {4, 8, 12, 13, 14, 15, 16}

\* HMAC-SHA256: 32 bytes determined by key and message.
MacOf(raw) == [p \in 1..32 |-> (raw[p] + 41 * p) % 256]

HmacSha256(key, msg) ==
  MacOf(FpBytes(Fingerprint(key)) \o FpBytes(Fingerprint(msg)) \o <<Len(msg) % 256>>
        \o [q \in 1..25 |-> FoldAt(msg, q, 25) % 256])

\* crypto.scryptSync(password, salt, keylen): keylen bytes determined by
\* password and salt.
DeriveFrom(seed, keylen) == [i \in 1..keylen |-> (seed + 37 * i) % 256]

ScryptSync(password, salt, keylen) ==
  DeriveFrom(Fingerprint(password) + 5 * Fingerprint(salt), keylen)

---------------------------------------------------------------------------
(* src/lib/crypto.ts, encryption facility (lines 1-67) *)

\* What a call returns or throws.
Ok(v) == [kind |-> "ok", value |-> v, error |-> "none"]
Err(e) == [kind |-> "error", value |-> <<>>, error |-> e]
NoOutcome == [kind |-> "none", value |-> <<>>, error |-> "none"]

\* 'dev-key-for-testing-only' and 'salt' (line 25)
DevPassphrase == <<100, 101, 118, 45, 107, 101, 121, 45, 102, 111, 114, 45, 116, 101, 115, 116, 105, 110, 103, 45, 111, 110, 108, 121>>
DevSalt == <<115, 97, 108, 116>>

\* The development key of line 25.
DevKey == ScryptSync(Utf8Encode(DevPassphrase), Utf8Encode(DevSalt), KEY_LENGTH)

\* getEncryptionKey with the bug of a key resolved once and for all (the
\* development key, whatever the environment says at the call).
getEncryptionKey_devOnly(envKey) == [key |-> Ok(DevKey), warned |-> ~Truthy(envKey)]

\* getEncryptionKey with the bug of a fallback without console.warn.
getEncryptionKey_silent(envKey) ==
  IF Truthy(envKey)
  THEN [key |-> Ok(Base64Decode(envKey)), warned |-> FALSE]
  ELSE [key |-> Ok(DevKey), warned |-> FALSE]

\* getEncryptionKey(): the decoded environment value when it is truthy, else
\* the development key with a console.warn.  It never throws and checks no
\* length.
getEncryptionKey(envKey) ==
  IF Truthy(envKey)
  THEN [key |-> Ok(Base64Decode(envKey)), warned |-> FALSE]
  ELSE [key |-> Ok(DevKey), warned |-> TRUE]

\* Lines 39-46: createCipheriv, update, final, getAuthTag, concat, base64.
\* createCipheriv throws when the key is not 32 bytes long.
SealHex(key, iv, encrypted) ==
  Ok(Base64Encode(iv \o HexDecode(encrypted) \o GcmTag(key, iv, HexDecode(encrypted))))

Seal(key, iv, plaintext) ==
  IF Len(key) # KEY_LENGTH THEN Err("Invalid key length")
  ELSE SealHex(key, iv, HexEncode(GcmCrypt(key, iv, Utf8Encode(plaintext))))

\* encryptSensitiveData with the bug of a constant iv (Buffer.alloc(IV_LENGTH))
\* in place of the random one.
encryptSensitiveData_staticIv(plaintext, envKey, iv) ==
  Seal(getEncryptionKey(envKey).key.value, [i \in 1..IV_LENGTH |-> 0], plaintext)

\* encryptSensitiveData(plaintext) under environment value envKey, with iv
\* the value crypto.randomBytes(IV_LENGTH) returned.
encryptSensitiveData(plaintext, envKey, iv) ==
  Seal(getEncryptionKey(envKey).key.value, iv, plaintext)

\* Open with the bug of a cipher mode without authentication (the tag is
\* never verified).
Open_noAuth(key, iv, tag, encrypted) ==
  IF Len(iv) = 0 THEN Err("Invalid initialization vector")
  ELSE IF Len(key) # KEY_LENGTH THEN Err("Invalid key length")
  ELSE Ok(Utf8Decode(GcmCrypt(key, iv, encrypted)))

\* Lines 60-66: createDecipheriv throws on an empty iv and on a key that is
\* not 32 bytes long, setAuthTag on a tag length GCM does not allow, final
\* when the tag does not verify.
Open(key, iv, tag, encrypted) ==
  IF Len(iv) = 0 THEN Err("Invalid initialization vector")
  ELSE IF Len(key) # KEY_LENGTH THEN Err("Invalid key length")
  ELSE IF Len(tag) \notin ValidGcmTagLengths THEN Err("Invalid authentication tag length")
  ELSE IF SubSeq(GcmTag(key, iv, encrypted), 1, Len(tag)) # tag
    THEN Err("Unsupported state or unable to authenticate data")
  ELSE Ok(Utf8Decode(GcmCrypt(key, iv, encrypted)))

\* OpenCombined with the bug of a tag slice one byte too long.
OpenCombined_longTag(key, combined) ==
  Open(key, Subarray(combined, 0, IV_LENGTH),
       Subarray(combined, 0 - (TAG_LENGTH + 1), Len(combined)),
       Subarray(combined, IV_LENGTH, 0 - TAG_LENGTH))

\* Lines 56-58: the three slices of the decoded blob.
OpenCombined(key, combined) ==
  Open(key, Subarray(combined, 0, IV_LENGTH),
       Subarray(combined, 0 - TAG_LENGTH, Len(combined)),
       Subarray(combined, IV_LENGTH, 0 - TAG_LENGTH))

\* decryptSensitiveData(encryptedData) under environment value envKey.
decryptSensitiveData(encryptedData, envKey) ==
  OpenCombined(getEncryptionKey(envKey).key.value, Base64Decode(encryptedData))

---------------------------------------------------------------------------
(* src/lib/crypto.ts, lookup facility (lines 69-86) *)

IsDigit(c) == c >= 48 /\ c <= 57

\* ssn.replace(/\D/g, "")
StripNonDigits(s) == SelectSeq(s, IsDigit)

\* ssnLast4 with the bug of digits.slice(0, 4).
ssnLast4_first4(ssn) == Subarray(StripNonDigits(ssn), 0, 4)

\* ssnLast4(ssn): digits.slice(-4)
ssnLast4(ssn) == Subarray(StripNonDigits(ssn), 0 - 4, Len(StripNonDigits(ssn)))

\* The digest of ssn under lookup key hmacKey (lines 79-80).
LookupDigest(hmacKey, ssn) == HexEncode(HmacSha256(Utf8Encode(hmacKey), Utf8Encode(ssn)))

---------------------------------------------------------------------------
(* Inputs of the model *)

\* Code units plaintexts are built from: '1' and the two halves of the
\* surrogate pair of U+1F600.
PlainUnits == {49, 55357, 56832}

RECURSIVE StringsUpTo(_, _)
StringsUpTo(units, n) ==
  IF n = 0 THEN {<<>>}
  ELSE LET shorter == StringsUpTo(units, n - 1)
       IN shorter \cup {Append(s, u) : s \in shorter, u \in units}

Ssn1 == <<49, 50, 51, 52, 53, 54, 55, 56, 57>>
Ssn2 == <<57, 56, 55, 54, 53, 52, 51, 50, 49>>

\* The plaintexts: every string of at most MaxPlainLen units, an SSN, and
\* U+00E9 U+20AC.
PlainTexts == StringsUpTo(PlainUnits, MaxPlainLen) \cup {Ssn1, <<233, 8364>>}

\* Plaintexts of the repeated-encryption runs.
RepeatTexts == {<<>>, Ssn1}

\* Values of ENCRYPTION_KEY: unset, empty, the two 32-byte keys of the tests
\* (part_002:126,137), a 16-byte key.
TestKeyStr == Base64Encode(BufferAlloc(KEY_LENGTH, <<116, 101, 115, 116, 45, 107, 101, 121, 45, 102, 111, 114, 45, 101, 110, 118>>))
WrongKeyStr == Base64Encode(BufferAlloc(KEY_LENGTH, <<119, 114, 111, 110, 103, 45, 107, 101, 121>>))
ShortKeyStr == Base64Encode(BufferAlloc(IV_LENGTH, <<115, 104, 111, 114, 116>>))
EncEnvValues == {Undefined, <<>>, TestKeyStr, WrongKeyStr, ShortKeyStr}

\* n values crypto.randomBytes(IV_LENGTH) can return.
NonceSpace(n) == {[i \in 1..IV_LENGTH |-> (k * 53 + i * 7) % 256] : k \in 1..n}

\* Characters put in the final position of a blob: 'A', 'B', '-', '_', '=',
\* ' ', '!'.
TamperChars == {65, 66, 45, 95, 61, 32, 33}

\* Characters inserted into a blob: '!', '='.
InsertChars == {33, 61}

ReplaceLast(s, c) == [s EXCEPT ![Len(s)] = c]
InsertAt(s, p, c) == SubSeq(s, 1, p) \o <<c>> \o SubSeq(s, p + 1, Len(s))

\* Other inputs of decryptSensitiveData: the strings of the tests
\* (part_002:102-104), a plaintext SSN, and encodings of 12, 16 and 31
\* bytes.
OtherInputs ==
  { <<>>, <<105, 110, 118, 97, 108, 105, 100, 45, 98, 97, 115, 101, 54, 52>>, <<83, 71, 86, 115, 98, 71, 56, 103, 86, 50, 57, 121, 98, 71, 81, 61>>, Ssn1,
    Base64Encode([i \in 1..12 |-> i]),
    Base64Encode([i \in 1..16 |-> 0]), Base64Encode([i \in 1..31 |-> i]) }

\* Values of SSN_HMAC_KEY: unset, empty, two keys.
HmacKeyOne == <<104, 109, 97, 99, 45, 107, 101, 121, 45, 111, 110, 101>>
HmacKeyTwo == <<104, 109, 97, 99, 45, 107, 101, 121, 45, 116, 119, 111>>
HmacEnvValues == {Undefined, <<>>, HmacKeyOne, HmacKeyTwo}

\* Arguments of ssnLookupHash and ssnLast4.
LookupValues == {<<>>, Ssn1, Ssn2, <<49, 50, 51, 45, 52, 53, 45, 54, 55, 56, 57>>, <<120, 49, 50>>}

---------------------------------------------------------------------------
(* State *)

VARIABLES
  encEnv,        \* process.env.ENCRYPTION_KEY
  hmacEnv,       \* process.env.SSN_HMAC_KEY
  lookupModule,  \* the import of lines 69-86: "unloaded", "loaded" or "failed"
  HMAC_KEY,      \* the module-level constant of line 71
  drawn,         \* the values crypto.randomBytes has returned
  issued,        \* the successful encryptSensitiveData calls, in order
  digests,       \* the successful ssnLookupHash calls, in order
  db,            \* the database file: the users table, its SSN columns and
                 \* the sessions table
  fs,            \* the other files next to it: bank.db and backup.db
  now,           \* the clock, in seconds
  logins,        \* the login requests the server is handling
  res            \* the most recent operation, what it returned or threw and
                 \* what it wrote to the console

vars == <<encEnv, hmacEnv, lookupModule, HMAC_KEY, drawn, issued, digests, db, fs, now,
          logins, res>>

\* No Set-Cookie header on the response.
NoHeader == <<-3>>

\* email, user, cookie and message: the address of a signup or login
\* request as submitted, the row id of the user the request returned (of
\* ctx.user for a logout), the session value of the Set-Cookie header the
\* handler wrote and the message of the answer of logout.
NoCall == [op |-> "none", arg |-> <<>>, keyRes |-> NoOutcome, out |-> NoOutcome,
           warned |-> FALSE, log |-> <<>>, email |-> <<>>, user |-> 0, cookie |-> NoHeader,
           message |-> ""]

\* The tables as tests/setup.ts creates them: no row, an ssn column and no
\* ssn_hash / ssn_last4 columns.
EmptyDb == [users |-> <<>>, columns |-> {"ssn"}, sessions |-> <<>>]


Init ==
  /\ encEnv = Undefined
  /\ hmacEnv = Undefined
  /\ lookupModule = "unloaded"
  /\ HMAC_KEY = Undefined
  /\ drawn = {}
  /\ issued = <<>>
  /\ digests = <<>>
  /\ db = EmptyDb
  \* bank.db as it is created and no backup.db (backup is the content of
  \* backup.db once hasBackup)
  /\ fs = [bank |-> EmptyDb, backup |-> EmptyDb, hasBackup |-> FALSE]
  /\ now = 0
  /\ logins = <<>>
  /\ res = NoCall

---------------------------------------------------------------------------
(* Operations of the encryption facility *)

\* process.env.ENCRYPTION_KEY = v / delete process.env.ENCRYPTION_KEY
SetEncryptionKeyTo(values) ==
  \E v \in values :
    /\ v # encEnv
    /\ encEnv' = v
    /\ res' = [NoCall EXCEPT !.op = "setEnv", !.arg = v]
    /\ UNCHANGED <<hmacEnv, lookupModule, HMAC_KEY, drawn, issued, digests, db, fs, now, logins>>

SetEncryptionKey == SetEncryptionKeyTo(EncEnvValues)

\* A call of getEncryptionKey().
GetEncryptionKeyCall ==
  /\ LET r == getEncryptionKey(encEnv)
     IN res' = [op |-> "getEncryptionKey", arg |-> <<>>, keyRes |-> r.key, out |-> r.key,
                warned |-> r.warned, log |-> <<>>, email |-> <<>>, user |-> 0,
                cookie |-> NoHeader, message |-> ""]
  /\ UNCHANGED <<encEnv, hmacEnv, lookupModule, HMAC_KEY, drawn, issued, digests, db, fs, now, logins>>

\* A call of encryptSensitiveData(pt), pt among pts, while fewer than cap
\* calls have been made; randomBytes returns a value of nonces that it has
\* not returned before.
EncryptCall(pts, cap, nonces) ==
  /\ Cardinality(drawn) < cap
  /\ \E pt \in pts, iv \in nonces \ drawn :
       LET k == getEncryptionKey(encEnv)
           r == encryptSensitiveData(pt, encEnv, iv)
       IN /\ drawn' = drawn \cup {iv}
          /\ issued' = IF r.kind = "ok"
                       THEN Append(issued, [plaintext |-> pt, key |-> k.key.value,
                                            iv |-> iv, blob |-> r.value,
                                            warned |-> k.warned])
                       ELSE issued
          /\ res' = [op |-> "encrypt", arg |-> pt, keyRes |-> k.key, out |-> r,
                     warned |-> k.warned, log |-> <<>>, email |-> <<>>, user |-> 0,
                     cookie |-> NoHeader, message |-> ""]
  /\ UNCHANGED <<encEnv, hmacEnv, lookupModule, HMAC_KEY, digests, db, fs, now, logins>>

\* A call of decryptSensitiveData(arg).
DecryptCall(arg) ==
  /\ LET k == getEncryptionKey(encEnv)
     IN res' = [op |-> "decrypt", arg |-> arg, keyRes |-> k.key,
                out |-> decryptSensitiveData(arg, encEnv), warned |-> k.warned,
                log |-> <<>>, email |-> <<>>, user |-> 0,
                cookie |-> NoHeader, message |-> ""]
  /\ UNCHANGED <<encEnv, hmacEnv, lookupModule, HMAC_KEY, drawn, issued, digests, db, fs, now, logins>>

\* ... of a blob encryptSensitiveData returned
DecryptIssued == \E i \in 1..Len(issued) : DecryptCall(issued[i].blob)

\* ... of such a blob with the character in its final position replaced
DecryptTampered ==
  \E i \in 1..Len(issued), c \in TamperChars :
    /\ c # issued[i].blob[Len(issued[i].blob)]
    /\ DecryptCall(ReplaceLast(issued[i].blob, c))

\* ... of such a blob with a character inserted at its front or in its middle
DecryptInserted ==
  \E i \in 1..Len(issued), c \in InsertChars, p \in {0, IV_LENGTH} :
    DecryptCall(InsertAt(issued[i].blob, p, c))

\* ... of another string
DecryptOther == \E a \in OtherInputs : DecryptCall(a)

---------------------------------------------------------------------------
(* Operations of the lookup facility *)

\* The environment is set before the process starts (README.md:30-35).
SetHmacKeyTo(values) ==
  \E v \in values :
    /\ lookupModule = "unloaded"
    /\ v # hmacEnv
    /\ hmacEnv' = v
    /\ res' = [NoCall EXCEPT !.op = "setHmacEnv", !.arg = v]
    /\ UNCHANGED <<encEnv, lookupModule, HMAC_KEY, drawn, issued, digests, db, fs, now, logins>>

SetHmacKey == SetHmacKeyTo(HmacEnvValues)

\* HmacKeyMissing with the bug of testing `HMAC_KEY === undefined`.
HmacKeyMissing_undefinedOnly(v) == v = Undefined

\* `if (!HMAC_KEY)`, line 72.
HmacKeyMissing(v) == ~Truthy(v)

\* The first import of the module runs lines 71-76.
LoadLookupModule ==
  /\ lookupModule = "unloaded"
  /\ IF HmacKeyMissing(hmacEnv)
     THEN /\ lookupModule' = "failed"
          /\ HMAC_KEY' = hmacEnv
          /\ res' = [NoCall EXCEPT !.op = "import", !.out = Err("SSN_HMAC_KEY is required")]
     ELSE /\ lookupModule' = "loaded"
          /\ HMAC_KEY' = hmacEnv
          /\ res' = [NoCall EXCEPT !.op = "import", !.out = Ok(<<>>)]
  /\ UNCHANGED <<encEnv, hmacEnv, drawn, issued, digests, db, fs, now, logins>>

\* ssnLookupHash with the bug of a per-call salt in the message.
ssnLookupHash_salted(ssn) == LookupDigest(HMAC_KEY, ssn \o <<48 + Len(digests)>>)

\* ssnLookupHash(ssn), lines 78-81.
ssnLookupHash(ssn) == LookupDigest(HMAC_KEY, ssn)

\* A call of ssnLookupHash(v) by a caller that imports the module: when the
\* module failed to load the caller gets the error of the import.
LookupHashCall(cap) ==
  \E v \in LookupValues :
    /\ lookupModule # "unloaded"
    /\ Len(digests) < cap
    /\ IF lookupModule = "loaded"
       THEN /\ digests' = Append(digests, [ssn |-> v, digest |-> ssnLookupHash(v)])
            /\ res' = [NoCall EXCEPT !.op = "ssnLookupHash", !.arg = v,
                                     !.out = Ok(ssnLookupHash(v))]
       ELSE /\ digests' = digests
            /\ res' = [NoCall EXCEPT !.op = "ssnLookupHash", !.arg = v,
                                     !.out = Err("SSN_HMAC_KEY is required")]
    /\ UNCHANGED <<encEnv, hmacEnv, lookupModule, HMAC_KEY, drawn, issued, db, fs, now, logins>>

SsnLookupHashCall == LookupHashCall(MaxCalls)

\* A call of ssnLast4(v).
SsnLast4Call ==
  \E v \in LookupValues :
    /\ lookupModule # "unloaded"
    /\ res' = [NoCall EXCEPT !.op = "ssnLast4", !.arg = v,
                             !.out = IF lookupModule = "loaded" THEN Ok(ssnLast4(v))
                                     ELSE Err("SSN_HMAC_KEY is required")]
    /\ UNCHANGED <<encEnv, hmacEnv, lookupModule, HMAC_KEY, drawn, issued, digests, db, fs, now, logins>>

---------------------------------------------------------------------------
(* src/lib/crypto.ts as one file: a process that imports it runs the
   module-level statements of lines 71-76 before it can call any export *)

ImportError == "SSN_HMAC_KEY is required"

\* A call of encryptSensitiveData by a process that imported the file.
ImportedEncryptCall ==
  /\ lookupModule # "unloaded"
  /\ IF lookupModule = "loaded"
     THEN EncryptCall(RepeatTexts, 1, NonceSpace(2))
     ELSE /\ \E pt \in RepeatTexts :
               res' = [NoCall EXCEPT !.op = "encrypt", !.arg = pt, !.out = Err(ImportError)]
          /\ UNCHANGED <<encEnv, hmacEnv, lookupModule, HMAC_KEY, drawn, issued, digests, db, fs, now, logins>>

\* A call of decryptSensitiveData by a process that imported the file.
ImportedDecryptCall ==
  /\ lookupModule # "unloaded"
  /\ IF lookupModule = "loaded"
     THEN DecryptIssued
     ELSE /\ \E a \in OtherInputs :
               res' = [NoCall EXCEPT !.op = "decrypt", !.arg = a, !.out = Err(ImportError)]
          /\ UNCHANGED <<encEnv, hmacEnv, lookupModule, HMAC_KEY, drawn, issued, digests, db, fs, now, logins>>

---------------------------------------------------------------------------
(* The users table: signup (src/server/routers/auth.ts) and the rows the
   test helpers insert (src/tests/helpers.ts) *)

\* SQL NULL (no code unit is negative).
Null == <<-2>>

\* '123-45-6789'
DashedSsn == <<49, 50, 51, 45, 52, 53, 45, 54, 55, 56, 57>>

\* E-mail addresses of the users, abbreviated to 'a' and 'b'; the n-th new
\* user comes with the n-th address.
Emails == <<(<<97>>), (<<98>>)>>

\* Values of ENCRYPTION_KEY and SSN_HMAC_KEY while the table is in use.
DbEncEnvValues == {Undefined, TestKeyStr, ShortKeyStr}
DbHmacEnvValues == {Undefined, HmacKeyOne}

\* The ssn field of a signup request: a 9-digit SSN and one that the input
\* schema rejects.
SignupSsns == {Ssn1, DashedSsn}

\* Values insertTestUser stores in the ssn column as they are: '123-45-6789'
\* (helpers.ts:18), '987654321' (user-workflow.test.ts:83) and ''.
SeedValues == {DashedSsn, Ssn2, <<>>}

\* /^\d{9}$/.test(s)
Is9Digits(s) == Len(s) = 9 /\ \A i \in 1..Len(s) : IsDigit(s[i])

\* A line of console output: the message, the row id it names (0 when it
\* names none) and the value interpolated into it.
Line(msg, id, text) == [msg |-> msg, id |-> id, text |-> text]

\* A users row, reduced to its key, e-mail, password and SSN columns; a
\* column the table does not have reads Null.  AUTOINCREMENT without
\* deletions numbers the rows 1, 2, ...
UserRow(id, email, password, ssn) ==
  [id |-> id, email |-> email, password |-> password, ssn |-> ssn,
   ssn_hash |-> Null, ssn_last4 |-> Null]

\* EmailTaken with the bug of never finding the existing user.
EmailTaken_never(email) == FALSE

\* Line 32: there is a users row with this address.
EmailTaken(email) == \E i \in 1..Len(db.users) : db.users[i].email = email

\* The addresses a request can come with: those of the users there are and
\* the one of the next new user.
RequestEmails == {Emails[i] : i \in 1..Len(Emails)} \cap
                   ({db.users[i].email : i \in 1..Len(db.users)} \cup
                    {Emails[i] : i \in {Len(db.users) + 1} \cap DOMAIN Emails})

\* String.prototype.toLowerCase on the letters A-Z.
ToLowerCase(s) == [i \in 1..Len(s) |-> IF s[i] \in 65..90 THEN s[i] + 32 ELSE s[i]]

\* z.string().email(): the addresses are abbreviated to their first letter,
\* and '-' stands for 'invalid-email' (auth.test.ts:85).
IsEmail(s) == Len(s) > 0 /\ \A i \in 1..Len(s) : s[i] \in (65..90) \cup (97..122)

\* 'Passw0rd'; the requests also carry 'Wrong0ne' and 'short'.
PasswordOne == <<80, 97, 115, 115, 119, 48, 114, 100>>

\* bcrypt.hash(password, 10) with the salt it drew, and bcrypt.compare: the
\* hash carries its salt, and compare hashes the candidate under that salt.
Salts == {1}
bcryptHash(password, salt) == <<36, salt>> \o FpBytes(Fingerprint(<<salt>> \o password))
bcryptCompare(password, hash) == bcryptHash(password, hash[2]) = hash

\* jwt.sign({ userId }, secret, { expiresIn: "7d" }): the payload is the user
\* id and the second of issue (iat; exp is iat plus seven days), and the
\* signature is a function of the payload and the secret of the process.
jwtSign(userId, clock) == <<userId, clock>>

\* A sessions row: the user and the token; expires_at follows from the token.
SessionRow(userId, token) == [userId |-> userId, token |-> token]

\* ctx.res of a request: an object with setHeader (auth.test.ts:18-20), the
\* Headers of the fetch adapter, and the object {} (auth.test.ts:87).
ResKinds == {"setHeader", "Headers", "bare"}

\* Lines 76-80, 126-130 and 155-159: the Set-Cookie header or the TypeError
\* of calling ctx.res.set on an object that has none.
SetHeaderError == "ctx.res.set is not a function"
CanSetCookie(resKind) == resKind \in {"setHeader", "Headers"}

\* signupRow with the bug of storing input.ssn as submitted.
signupRow_plaintext(id, email, hashedPassword, ssn, encryptedSSN) ==
  UserRow(id, email, hashedPassword, ssn)

\* auth.ts:45-49: the values of the insert, `ssn: encryptedSSN` and
\* `password: hashedPassword` overriding the submitted input.
signupRow(id, email, hashedPassword, ssn, encryptedSSN) ==
  UserRow(id, email, hashedPassword, encryptedSSN)

\* Lines 42-83 of the signup mutation for a valid input whose address is
\* free: the password hash, the encryption of the SSN, the insert of the
\* user, the token, the insert of the session, the cookie and the answer.
\* Nothing is undone when a later step throws.
SignupCreate(submitted, email, password, ssn, resKind) ==
  \E iv \in NonceSpace(2) \ drawn, salt \in Salts :
    LET k == getEncryptionKey(encEnv)
        r == encryptSensitiveData(ssn, encEnv, iv)
        stored == r.kind = "ok" /\ "ssn" \in db.columns
        id == Len(db.users) + 1
        token == jwtSign(id, now)
    IN /\ drawn' = drawn \cup {iv}
       /\ issued' = IF r.kind = "ok"
                    THEN Append(issued, [plaintext |-> ssn, key |-> k.key.value,
                                         iv |-> iv, blob |-> r.value,
                                         warned |-> k.warned])
                    ELSE issued
       /\ db' = IF stored
                THEN [db EXCEPT
                        !.users = Append(@, signupRow(id, email, bcryptHash(password, salt),
                                                      ssn, r.value)),
                        !.sessions = Append(@, SessionRow(id, token))]
                ELSE db
       /\ res' = [op |-> "signup", arg |-> ssn, keyRes |-> k.key,
                  out |-> IF r.kind = "error" THEN r
                          ELSE IF ~stored THEN Err("table users has no column named ssn")
                          ELSE IF ~CanSetCookie(resKind) THEN Err(SetHeaderError)
                          ELSE Ok(token),
                  warned |-> k.warned, log |-> <<>>, email |-> submitted,
                  user |-> IF stored /\ CanSetCookie(resKind) THEN id ELSE 0,
                  cookie |-> IF stored /\ CanSetCookie(resKind) THEN token ELSE NoHeader,
                  message |-> ""]
       /\ UNCHANGED <<encEnv, hmacEnv, lookupModule, HMAC_KEY, digests, fs, now, logins>>

\* A signup that ends before it writes anything.
SignupRejected(email, ssn, error) ==
  /\ res' = [NoCall EXCEPT !.op = "signup", !.arg = ssn, !.email = email, !.out = Err(error)]
  /\ UNCHANGED <<encEnv, hmacEnv, lookupModule, HMAC_KEY, drawn, issued, digests, db, fs, now, logins>>

\* The signup mutation (auth.ts:14-83) in a server process that imported
\* src/lib/crypto.ts: the input schema, which also lower-cases the address,
\* the check for an existing user, and the creation of user and session.
SignupRequest(email, password, ssn, resKind) ==
  /\ lookupModule # "unloaded"
  /\ IF lookupModule = "failed" THEN SignupRejected(email, ssn, ImportError)
     ELSE IF ~(IsEmail(email) /\ Len(password) >= 8 /\ Is9Digits(ssn))
       THEN SignupRejected(email, ssn, "BAD_REQUEST")
     ELSE IF EmailTaken(ToLowerCase(email)) THEN SignupRejected(email, ssn, "CONFLICT")
     ELSE SignupCreate(email, ToLowerCase(email), password, ssn, resKind)

\* Signups of the form, each with a valid address and password.
Signup ==
  \E email \in RequestEmails, ssn \in SignupSsns :
    SignupRequest(email, PasswordOne, ssn, "setHeader")

\* insertTestUser (helpers.ts:52-73): a row whose ssn column holds the value
\* given, as it is.
SeedUser ==
  \E email \in RequestEmails, v \in SeedValues, salt \in Salts :
    /\ "ssn" \in db.columns
    /\ IF EmailTaken(email)
       THEN /\ db' = db
            /\ res' = [NoCall EXCEPT !.op = "insertTestUser", !.arg = v,
                                     !.out = Err("UNIQUE constraint failed: users.email")]
       ELSE /\ db' = [db EXCEPT !.users =
                        Append(@, UserRow(Len(db.users) + 1, email,
                                          bcryptHash(PasswordOne, salt), v))]
            /\ res' = [NoCall EXCEPT !.op = "insertTestUser", !.arg = v, !.out = Ok(email)]
    /\ UNCHANGED <<encEnv, hmacEnv, lookupModule, HMAC_KEY, drawn, issued, digests, fs, now, logins>>

---------------------------------------------------------------------------
(* src/server/routers/auth.ts: signup, login and logout with their sessions *)

\* The addresses of signup and login requests: 'a', 'A', 'b' and the
\* invalid one.
AuthEmails == {<<97>>, <<65>>, <<98>>, <<45>>}

\* The users row a SELECT ... WHERE email = ? returns when there is one
\* (EmailTaken); the comparison of SQLite is by code unit.
UserByEmail(email) ==
  db.users[CHOOSE i \in 1..Len(db.users) : db.users[i].email = email]

\* DELETE FROM sessions WHERE user_id = ?  (line 115)
\* DeleteSessionsOfUser with the bug of ticket SEC-304: nothing is deleted.
DeleteSessions_none(rows, userId) == rows
DeleteSessionsOfUser(rows, userId) == SelectSeq(rows, LAMBDA r : r.userId # userId)

\* DELETE FROM sessions WHERE token = ?  (line 151)
DeleteSessionsByToken(rows, token) == SelectSeq(rows, LAMBDA r : r.token # token)

SessionsOf(rows, userId) == SelectSeq(rows, LAMBDA r : r.userId = userId)

\* The clock moves on by a second.
MaxClock == 1
Tick ==
  /\ now < MaxClock
  /\ now' = now + 1
  /\ UNCHANGED <<encEnv, hmacEnv, lookupModule, HMAC_KEY, drawn, issued, digests, db, fs, logins, res>>

\* A signup request of any address, password and response object.
SignupCall ==
  \E email \in AuthEmails, password \in {PasswordOne, <<115, 104, 111, 114, 116>>}, resKind \in ResKinds :
    SignupRequest(email, password, Ssn1, resKind)

\* The signup of the first user, from the form.
FirstSignup == SignupRequest(Emails[1], PasswordOne, Ssn1, "Headers")

\* A login that ends before it writes anything.
LoginRejected(email, password, error) ==
  /\ res' = [NoCall EXCEPT !.op = "login", !.email = email, !.arg = password,
                           !.out = Err(error)]
  /\ UNCHANGED <<encEnv, hmacEnv, lookupModule, HMAC_KEY, drawn, issued, digests, db, fs, now, logins>>

\* Lines 93-113 of a login request: the input schema (which leaves the
\* address as typed), the SELECT of the user, bcrypt.compare and jwt.sign;
\* no other request changes a users row once it is there.  The server takes
\* the request when it handles fewer than cap of them.
LoginBegin(cap) ==
  /\ Len(logins) < cap
  /\ \E email \in AuthEmails, password \in {PasswordOne, <<87, 114, 111, 110, 103, 48, 110, 101>>}, resKind \in ResKinds :
       IF ~IsEmail(email) THEN LoginRejected(email, password, "BAD_REQUEST")
       ELSE IF ~EmailTaken(email) THEN LoginRejected(email, password, "UNAUTHORIZED")
       ELSE IF ~bcryptCompare(password, UserByEmail(email).password)
         THEN LoginRejected(email, password, "UNAUTHORIZED")
       ELSE /\ logins' = Append(logins, [email |-> email, password |-> password,
                                         resKind |-> resKind,
                                         user |-> UserByEmail(email).id,
                                         token |-> jwtSign(UserByEmail(email).id, now),
                                         pc |-> "delete"])
            /\ res' = [NoCall EXCEPT !.op = "login", !.email = email, !.arg = password]
            /\ UNCHANGED <<encEnv, hmacEnv, lookupModule, HMAC_KEY, drawn, issued, digests, db, fs, now>>

\* Line 115 of request r: the sessions of the user are deleted.
LoginDelete ==
  \E r \in 1..Len(logins) :
    /\ logins[r].pc = "delete"
    /\ db' = [db EXCEPT !.sessions = DeleteSessionsOfUser(@, logins[r].user)]
    /\ logins' = [logins EXCEPT ![r].pc = "insert"]
    /\ res' = [NoCall EXCEPT !.op = "login", !.email = logins[r].email,
                             !.arg = logins[r].password]
    /\ UNCHANGED <<encEnv, hmacEnv, lookupModule, HMAC_KEY, drawn, issued, digests, fs, now>>

\* Lines 117-132 of request r: the insert of the new session, the cookie and
\* the answer.
LoginInsert ==
  \E r \in 1..Len(logins) :
    /\ logins[r].pc = "insert"
    /\ db' = [db EXCEPT !.sessions = Append(@, SessionRow(logins[r].user, logins[r].token))]
    /\ logins' = SubSeq(logins, 1, r - 1) \o SubSeq(logins, r + 1, Len(logins))
    /\ res' = IF CanSetCookie(logins[r].resKind)
              THEN [NoCall EXCEPT !.op = "login", !.email = logins[r].email,
                                  !.arg = logins[r].password,
                                  !.out = Ok(logins[r].token), !.user = logins[r].user,
                                  !.cookie = logins[r].token]
              ELSE [NoCall EXCEPT !.op = "login", !.email = logins[r].email,
                                  !.arg = logins[r].password,
                                  !.out = Err(SetHeaderError)]
    /\ UNCHANGED <<encEnv, hmacEnv, lookupModule, HMAC_KEY, drawn, issued, digests, fs, now>>

\* ctx.req of a logout request: an object with a cookies property
\* ("cookies"), a request whose headers carry the cookie header ("headers")
\* and the object {} of createMockAuthContext (helpers.ts:113).
ReqKinds == {"cookies", "headers", "bare"}

\* The session token a request carries: the one of a session there is, one
\* of no session, or none.
NoToken == <<-4>>
RequestTokens == {db.sessions[i].token : i \in 1..Len(db.sessions)} \cup {<<9, 9>>, NoToken}

\* Lines 138-149: the token the handler reads from the request.  A request
\* with cookies gives cookies.session; otherwise the value of the pair
\* session= of the cookie header, split at '; ' and at '=' (a JWT has
\* no '=' in it).
CookiePairs(token) == IF token = NoToken THEN <<>> ELSE <<[name |-> "session", value |-> token]>>
SessionOfHeader(pairs) ==
  IF \E i \in 1..Len(pairs) : pairs[i].name = "session"
  THEN pairs[CHOOSE i \in 1..Len(pairs) :
               /\ pairs[i].name = "session"
               /\ \A j \in 1..(i - 1) : pairs[j].name # "session"].value
  ELSE NoToken

\* The logout mutation (auth.ts:135-162) for a context whose user, request
\* and response are as given; user 0 is null.
LogoutRequest(user, reqKind, token, resKind) ==
  LET read == IF reqKind = "cookies" THEN token
              ELSE SessionOfHeader(<<[name |-> "theme", value |-> <<100>>]>> \o CookiePairs(token))
      threwEarly == user # 0 /\ reqKind = "bare"
      deletes == user # 0 /\ ~threwEarly /\ read # NoToken
  IN /\ db' = IF deletes
              THEN [db EXCEPT !.sessions = DeleteSessionsByToken(@, read)]
              ELSE db
     /\ res' = [NoCall EXCEPT
                  !.op = "logout", !.arg = token, !.user = user,
                  !.out = IF threwEarly THEN Err("Cannot read properties of undefined (reading 'get')")
                          ELSE IF ~CanSetCookie(resKind) THEN Err(SetHeaderError)
                          ELSE Ok(<<>>),
                  !.message = IF threwEarly \/ ~CanSetCookie(resKind) THEN ""
                              ELSE IF user # 0 THEN "Logged out successfully"
                              ELSE "No active session",
                  !.cookie = IF ~threwEarly /\ CanSetCookie(resKind) THEN <<>> ELSE NoHeader]
     /\ UNCHANGED <<encEnv, hmacEnv, lookupModule, HMAC_KEY, drawn, issued, digests, fs, now, logins>>

Logout ==
  \E user \in 0..Len(db.users), reqKind \in ReqKinds, token \in RequestTokens,
     resKind \in ResKinds :
    LogoutRequest(user, reqKind, token, resKind)

---------------------------------------------------------------------------
(* src/scripts/db-utils.ts, command migrate-ssns *)

\* The sequences of n different values of S: what n successive calls of
\* crypto.randomBytes can return.
RECURSIVE FreshSeqs(_, _)
FreshSeqs(S, n) ==
  IF n = 0 THEN {<<>>}
  ELSE UNION {{<<x>> \o t : t \in FreshSeqs(S \ {x}, n - 1)} : x \in S}

Range(f) == {f[i] : i \in DOMAIN f}

\* isPlaintextSSN with the bug of taking every value that does not decrypt
\* for a plaintext SSN.
isPlaintextSSN_anyFailure(user, envKey) ==
  [result |-> user.ssn # Null /\ decryptSensitiveData(user.ssn, envKey).kind # "ok",
   log |-> <<>>]

\* isPlaintextSSN(user), lines 160-175: what it returns and what it writes
\* with console.warn.
isPlaintextSSN(user, envKey) ==
  IF user.ssn = Null THEN [result |-> FALSE, log |-> <<>>]
  ELSE IF decryptSensitiveData(user.ssn, envKey).kind = "ok"
    THEN [result |-> FALSE, log |-> <<>>]
  ELSE IF Is9Digits(user.ssn) THEN [result |-> TRUE, log |-> <<>>]
  ELSE [result |-> FALSE,
        log |-> <<Line("User has invalid SSN format", user.id, user.ssn)>>]

\* Lines 151-155 for a row whose encryption returned e under key k.
MigrateUpdate(st, user, k, e) ==
  IF e.kind = "error"
  THEN [st EXCEPT !.ivs = Tail(@), !.error = e.error]
  ELSE [st EXCEPT !.users[user.id].ssn = e.value,
                  !.log = @ \o <<Line("SSN migrated", user.id, <<>>),
                                 Line("Stored Encrypted SSN", user.id, e.value)>>,
                  !.ivs = Tail(@),
                  !.issued = Append(@, [plaintext |-> user.ssn, key |-> k.key.value,
                                        iv |-> Head(st.ivs), blob |-> e.value,
                                        warned |-> k.warned])]

MigrateChecked(st, user, envKey, p) ==
  IF ~p.result THEN [st EXCEPT !.log = @ \o p.log]
  ELSE MigrateUpdate(st, user, getEncryptionKey(envKey),
                     encryptSensitiveData(user.ssn, envKey, Head(st.ivs)))

\* The body of the forEach of lines 149-157 for one row of the SELECT.
MigrateRow(st, user, envKey) ==
  IF user.ssn \in {Null, <<>>} THEN st
  ELSE MigrateChecked(st, user, envKey, isPlaintextSSN(user, envKey))

\* performSSNMigration(), lines 146-158, from row i of the SELECT on; an
\* exception of encryptSensitiveData leaves the forEach and ends the run.
RECURSIVE performSSNMigration(_, _, _, _)
performSSNMigration(i, st, rows, envKey) ==
  IF i > Len(rows) \/ st.error # "" THEN st
  ELSE performSSNMigration(i + 1, MigrateRow(st, rows[i], envKey), rows, envKey)

\* The rows for which a run calls encryptSensitiveData, each call drawing an
\* IV.
RowsToEncryptOf(users, envKey) ==
  {i \in 1..Len(users) :
     users[i].ssn \notin {Null, <<>>} /\ isPlaintextSSN(users[i], envKey).result}

\* The state a run leaves behind.
MigrateSsnsDone(st, ivs) ==
  /\ db' = [db EXCEPT !.users = st.users]
  /\ drawn' = drawn \cup (Range(ivs) \ Range(st.ivs))
  /\ issued' = issued \o st.issued
  /\ res' = [NoCall EXCEPT !.op = "migrate-ssns",
                           !.out = IF st.error = "" THEN Ok(<<>>) ELSE Err(st.error),
                           !.log = st.log]

\* `db-utils migrate-ssns <file>.db` (lines 94-118): the process imports
\* src/lib/crypto.ts, then runs performSSNMigration on the rows of
\* `SELECT id, ssn FROM users`.  Every update is committed on its own.
MigrateSsnsRun ==
  /\ IF HmacKeyMissing(hmacEnv)
     THEN /\ res' = [NoCall EXCEPT !.op = "migrate-ssns", !.out = Err(ImportError)]
          /\ UNCHANGED <<db, drawn, issued>>
     ELSE IF "ssn" \notin db.columns
     THEN /\ res' = [NoCall EXCEPT !.op = "migrate-ssns", !.out = Err("no such column: ssn"),
                                   !.log = <<Line("=== Migrating SSNs in", 0, <<>>),
                                            Line("Starting SSN migration...", 0, <<>>)>>]
          /\ UNCHANGED <<db, drawn, issued>>
     ELSE \E ivs \in FreshSeqs(NonceSpace(2) \ drawn, Cardinality(RowsToEncryptOf(db.users, encEnv))) :
            MigrateSsnsDone(
              performSSNMigration(1, [users |-> db.users,
                                      log |-> <<Line("=== Migrating SSNs in", 0, <<>>),
                                               Line("Starting SSN migration...", 0, <<>>)>>,
                                      ivs |-> ivs, issued |-> <<>>, error |-> ""],
                                  db.users, encEnv),
              ivs)
  /\ UNCHANGED <<encEnv, hmacEnv, lookupModule, HMAC_KEY, digests, fs, now, logins>>

---------------------------------------------------------------------------
(* src/scripts/db-utils.ts: the command line, the confirmation of
   migrate-ssns and backup-db *)

\* The file name "test.db".
TestDb == <<116, 101, 115, 116, 46, 100, 98>>

\* process.argv.slice(3) of the command lines checked: no option, the name
\* of a database, a name that does not end with .db ("test"), the name of a
\* database followed by a second option.
CommandLines == {<<>>, <<TestDb>>, <<(<<116, 101, 115, 116>>)>>, <<TestDb, TestDb>>}

\* String.prototype.endsWith.
EndsWith(s, suffix) ==
  /\ Len(s) >= Len(suffix)
  /\ SubSeq(s, Len(s) - Len(suffix) + 1, Len(s)) = suffix

\* Lines 14-19: the file the process opens, the one named or bank.db.
BankDb == "bank.db"
DbPath(options) ==
  IF Len(options) = 1 /\ EndsWith(options[1], <<46, 100, 98>>) THEN "named" ELSE BankDb

\* The content of the file opened; test.db is the one database named.
FileAt(path) == IF path = BankDb THEN fs.bank ELSE db

\* String.prototype.trim for the blanks of the answers.
Trim(s) ==
  LET kept == {i \in 1..Len(s) : s[i] # 32}
  IN IF kept = {} THEN <<>>
     ELSE SubSeq(s, CHOOSE i \in kept : \A j \in kept : i <= j,
                    CHOOSE i \in kept : \A j \in kept : i >= j)

\* Line 102: answer.trim().toLowerCase() === 'no' || ... === 'n'.
Cancels(answer) == ToLowerCase(Trim(answer)) \in {<<110, 111>>, <<110>>}

WarningLine ==
  Line("WARNING: No database file specified. This will migrate the main bank.db file!",
       0, <<>>)

\* performSSNMigration() on the file the process opened; before it lines
\* 96 and 109 have written after the prompt, line 115 without it.
CliMigrate(options, answer) ==
  LET path == DbPath(options)
      users == FileAt(path).users
  IN \E ivs \in FreshSeqs(NonceSpace(2) \ drawn,
                          Cardinality(RowsToEncryptOf(users, encEnv))) :
       LET st == performSSNMigration(
                   1, [users |-> users,
                       log |-> (IF options = <<>>
                                THEN <<WarningLine, Line("=== Migrating SSNs ===", 0, <<>>)>>
                                ELSE <<Line("=== Migrating SSNs in", 0, options[1])>>)
                                 \o <<Line("Starting SSN migration...", 0, <<>>)>>,
                       ivs |-> ivs, issued |-> <<>>, error |-> ""],
                   users, encEnv)
       IN /\ IF path = BankDb
             THEN /\ fs' = [fs EXCEPT !.bank.users = st.users]
                  /\ db' = db
             ELSE /\ db' = [db EXCEPT !.users = st.users]
                  /\ fs' = fs
          /\ drawn' = drawn \cup (Range(ivs) \ Range(st.ivs))
          /\ issued' = issued \o st.issued
          /\ res' = [NoCall EXCEPT !.op = "migrate-ssns", !.arg = answer,
                                   !.out = IF st.error = "" THEN Ok(<<>>)
                                           ELSE Err(st.error),
                                   !.log = st.log]

\* `db-utils migrate-ssns` with the options of a command line (lines 12-20
\* and 94-118); answer is what is typed when the prompt is shown.
MigrateSsnsCommand(options, answer) ==
  /\ IF HmacKeyMissing(hmacEnv)
     THEN /\ res' = [NoCall EXCEPT !.op = "migrate-ssns", !.arg = answer,
                                   !.out = Err(ImportError)]
          /\ UNCHANGED <<db, fs, drawn, issued>>
     ELSE IF options = <<>> /\ Cancels(answer)
     THEN /\ res' = [NoCall EXCEPT !.op = "migrate-ssns", !.arg = answer,
                                   !.out = Ok(<<>>),
                                   !.log = <<WarningLine,
                                            Line("Migration cancelled.", 0, <<>>)>>]
          /\ UNCHANGED <<db, fs, drawn, issued>>
     ELSE CliMigrate(options, answer)
  /\ UNCHANGED <<encEnv, hmacEnv, lookupModule, HMAC_KEY, digests, now, logins>>

\* Without options the answer is read (Enter, "no", "N", " n" or "yes");
\* with options there is no prompt.
MigrateSsnsCli ==
  \E options \in CommandLines :
    \E answer \in (IF options = <<>>
                   THEN {<<>>, <<110, 111>>, <<78>>, <<32, 110>>, <<121, 101, 115>>}
                   ELSE {<<>>}) :
      MigrateSsnsCommand(options, answer)

ExistsLine == Line("Backup file already exists. Please remove it first.", 0, <<>>)

\* `db-utils backup-db` (lines 119-126): the message of line 122 is followed
\* by copyFileSync(dbPath, backupPath) whether or not backup.db exists.
BackupDbCommand(options) ==
  /\ IF HmacKeyMissing(hmacEnv)
     THEN /\ res' = [NoCall EXCEPT !.op = "backup-db", !.out = Err(ImportError)]
          /\ fs' = fs
     ELSE /\ fs' = [fs EXCEPT !.backup = FileAt(DbPath(options)), !.hasBackup = TRUE]
          /\ res' = [NoCall EXCEPT !.op = "backup-db", !.out = Ok(<<>>),
                                   !.log = (IF fs.hasBackup THEN <<ExistsLine>> ELSE <<>>)
                                             \o <<Line("Database backup created at", 0, <<>>)>>]
  /\ UNCHANGED <<encEnv, hmacEnv, lookupModule, HMAC_KEY, drawn, issued, digests, db,
                 now, logins>>

BackupDb == \E options \in {<<>>, <<TestDb>>} : BackupDbCommand(options)

\* A row of bank.db written before SSNs were encrypted.
SeedBank ==
  \E v \in SeedValues, salt \in Salts :
    /\ fs.bank.users = <<>>
    /\ fs' = [fs EXCEPT !.bank.users =
                 <<UserRow(1, Emails[1], bcryptHash(PasswordOne, salt), v)>>]
    /\ res' = [NoCall EXCEPT !.op = "insertTestUser", !.arg = v, !.out = Ok(Emails[1])]
    /\ UNCHANGED <<encEnv, hmacEnv, lookupModule, HMAC_KEY, drawn, issued, digests, db,
                   now, logins>>

---------------------------------------------------------------------------
(* The scripts of the lookup scheme: migrate-ssn.js (src/unnamed/part_006),
   the removal of the ssn column (src/unnamed/part_005) and verify-ssn.js
   (src/unnamed/part_004).  Each reads SSN_HMAC_KEY itself; the .env.local
   file they fall back to counts as part of the environment. *)

\* part_006:28-34, the script's own copies of the two functions.
migrate_ssnLookupHash(key, ssn) == HexEncode(HmacSha256(Utf8Encode(key), Utf8Encode(ssn)))
migrate_ssnLast4(ssn) == ssnLast4(IF ssn = Null THEN <<>> ELSE ssn)

\* The WHERE clause of part_006:57.
NeedsLookupMigration(u) == u.ssn # Null /\ u.ssn_hash \in {Null, <<>>}

\* part_006:70-77 for one row: the UPDATE and the console.log.
LookupMigrateRow(u, hash, last4) == [u EXCEPT !.ssn_hash = hash, !.ssn_last4 = last4]

LookupMigrateRows(users, key) ==
  [i \in 1..Len(users) |->
     IF NeedsLookupMigration(users[i])
     THEN LookupMigrateRow(users[i], migrate_ssnLookupHash(key, users[i].ssn),
                           migrate_ssnLast4(users[i].ssn))
     ELSE users[i]]

\* The rows of the SELECT, by their position in the table.
SelectedRows(users) == {i \in 1..Len(users) : NeedsLookupMigration(users[i])}

\* The rows of the SELECT that come before the n-th of them.
SelectedBefore(users, n) ==
  {i \in SelectedRows(users) : Cardinality({j \in SelectedRows(users) : j < i}) < n - 1}

\* LookupTransaction with the bug of running the loop outside a
\* transaction: the updates made before the failure stay.
LookupTransaction_noRollback(users, key, failAt) ==
  [i \in 1..Len(users) |->
     IF failAt = 0 \/ i \in SelectedBefore(users, failAt)
     THEN LookupMigrateRows(users, key)[i]
     ELSE users[i]]

\* part_006:68-87: db.transaction runs the loop between BEGIN and COMMIT and
\* rolls back when it throws.  failAt = 0: no statement fails; failAt = n:
\* the UPDATE of the n-th selected row throws (the database is locked by
\* another writer, the disk is full).
LookupTransaction(users, key, failAt) ==
  IF failAt = 0 THEN LookupMigrateRows(users, key) ELSE users

RECURSIVE LookupMigrateLog(_, _)
LookupMigrateLog(users, i) ==
  IF i > Len(users) THEN <<Line("Migration completed successfully.", 0, <<>>)>>
  ELSE IF NeedsLookupMigration(users[i])
    THEN <<Line("Migrated user", users[i].id, migrate_ssnLast4(users[i].ssn))>>
           \o LookupMigrateLog(users, i + 1)
  ELSE LookupMigrateLog(users, i + 1)

LookupColumns == {"ssn_hash", "ssn_last4"}

\* `node scripts/migrate-ssn.js`: the key (lines 9-24), the two columns
\* (lines 39-53), the SELECT (lines 55-66) and the transaction (lines 68-87).
LookupMigrationRun ==
  /\ IF ~Truthy(hmacEnv)
     THEN /\ db' = db
          /\ res' = [NoCall EXCEPT !.op = "migrate-ssn",
                                   !.out = Err("SSN_HMAC_KEY is required to run the migration"),
                                   !.log = <<Line("Error: SSN_HMAC_KEY is required to run the migration", 0, <<>>)>>]
     ELSE IF "ssn" \notin db.columns
     THEN /\ db' = [db EXCEPT !.columns = @ \cup LookupColumns]
          /\ res' = [NoCall EXCEPT !.op = "migrate-ssn",
                                   !.out = Err("no such column: ssn"),
                                   !.log = <<Line("Could not query users for migration", 0, <<>>)>>]
     ELSE IF \A i \in 1..Len(db.users) : ~NeedsLookupMigration(db.users[i])
     THEN /\ db' = [db EXCEPT !.columns = @ \cup LookupColumns]
          /\ res' = [NoCall EXCEPT !.op = "migrate-ssn", !.out = Ok(<<>>),
                                   !.log = <<Line("No users found that need migration", 0, <<>>)>>]
     ELSE \E failAt \in 0..Cardinality(SelectedRows(db.users)) :
            /\ db' = [db EXCEPT !.users = LookupTransaction(db.users, hmacEnv, failAt),
                                !.columns = @ \cup LookupColumns]
            /\ res' = IF failAt = 0
                      THEN [NoCall EXCEPT !.op = "migrate-ssn", !.out = Ok(<<>>),
                                          !.log = LookupMigrateLog(db.users, 1)]
                      ELSE [NoCall EXCEPT !.op = "migrate-ssn", !.out = Err("Migration failed"),
                                          \* the lines of the rows updated before the
                                          \* one that threw, and the error
                                          !.log = SelectSeq(LookupMigrateLog(db.users, 1),
                                                    LAMBDA l : \E i \in SelectedBefore(db.users, failAt) :
                                                                 l.id = db.users[i].id)
                                                    \o <<Line("Migration failed:", 0, <<>>)>>]
  /\ UNCHANGED <<encEnv, hmacEnv, lookupModule, HMAC_KEY, drawn, issued, digests, fs, now, logins>>

\* part_005: the users table is rebuilt without the ssn column; the copy
\* reads ssn_hash and ssn_last4 and fails, rolled back, when the table does
\* not have them.
RemoveSsnColumnRun ==
  /\ IF "ssn" \notin db.columns
     THEN /\ db' = db
          /\ res' = [NoCall EXCEPT !.op = "remove-ssn-column", !.out = Ok(<<>>),
                                   !.log = <<Line("ssn column not found on users table; nothing to do.", 0, <<>>)>>]
     ELSE IF ~(LookupColumns \subseteq db.columns)
     THEN /\ db' = db
          /\ res' = [NoCall EXCEPT !.op = "remove-ssn-column",
                                   !.out = Err("no such column: ssn_hash"),
                                   !.log = <<Line("Failed to remove ssn column", 0, <<>>)>>]
     ELSE /\ db' = [db EXCEPT !.users = [i \in 1..Len(db.users) |-> [db.users[i] EXCEPT !.ssn = Null]],
                              !.columns = @ \ {"ssn"}]
          /\ res' = [NoCall EXCEPT !.op = "remove-ssn-column", !.out = Ok(<<>>),
                                   !.log = <<Line("Successfully removed ssn column.", 0, <<>>)>>]
  /\ UNCHANGED <<encEnv, hmacEnv, lookupModule, HMAC_KEY, drawn, issued, digests, fs, now, logins>>

\* part_004:21-23
verify_ssnLookupHash(ssn, key) == HexEncode(HmacSha256(Utf8Encode(key), Utf8Encode(ssn)))

\* The rows a SELECT ... WHERE column = value returns, in table order.
RowsWhere(users, column, value) ==
  SelectSeq(users, LAMBDA u : u[column] = value)

\* Arguments of `verify-ssn.js check`.
CheckArgs == {Ssn1, <<49, 50, 51>>}

\* What `check` writes for the first row matching hash (part_004:60-66).
CheckLog(rows) ==
  IF rows = <<>> THEN <<Line("No match for provided SSN (hash not found)", 0, <<>>)>>
  ELSE <<Line("Match found", rows[1].id, rows[1].ssn_hash \o rows[1].ssn_last4)>>

\* `node scripts/verify-ssn.js check <ssn>` (part_004:48-66).
CheckRun ==
  /\ \E ssn \in CheckArgs :
       IF ~Is9Digits(StripNonDigits(ssn))
       THEN res' = [NoCall EXCEPT !.op = "check", !.arg = ssn,
                                  !.out = Err("Please provide a 9-digit SSN to check")]
       ELSE IF ~Truthy(hmacEnv)
       THEN res' = [NoCall EXCEPT !.op = "check", !.arg = ssn,
                                  !.out = Err("SSN_HMAC_KEY not found in env or .env.local")]
       ELSE IF "ssn_hash" \notin db.columns
       THEN res' = [NoCall EXCEPT !.op = "check", !.arg = ssn,
                                  !.out = Err("no such column: ssn_hash")]
       ELSE res' = [NoCall EXCEPT !.op = "check", !.arg = ssn, !.out = Ok(<<>>),
                      !.log = CheckLog(RowsWhere(db.users, "ssn_hash",
                                                 verify_ssnLookupHash(ssn, hmacEnv)))]
  /\ UNCHANGED <<encEnv, hmacEnv, lookupModule, HMAC_KEY, drawn, issued, digests, db, fs, now, logins>>

\* The JSON of the rows `find` prints (part_004:46).
RECURSIVE FindLog(_, _)
FindLog(rows, i) ==
  IF i > Len(rows) THEN <<>>
  ELSE <<Line("row", rows[i].id, rows[i].ssn_hash \o rows[i].ssn_last4)>> \o FindLog(rows, i + 1)

\* `node scripts/verify-ssn.js find --last4 <digits>` (part_004:34-47).
FindRun ==
  /\ \E arg \in {<<54, 55, 56, 57>>} :
       IF "ssn_last4" \notin db.columns
       THEN res' = [NoCall EXCEPT !.op = "find", !.arg = arg,
                                  !.out = Err("no such column: ssn_last4")]
       ELSE IF RowsWhere(db.users, "ssn_last4", ssnLast4(arg)) = <<>>
       THEN res' = [NoCall EXCEPT !.op = "find", !.arg = arg, !.out = Ok(<<>>),
                      !.log = <<Line("No users found with last4=", 0, ssnLast4(arg))>>]
       ELSE res' = [NoCall EXCEPT !.op = "find", !.arg = arg, !.out = Ok(<<>>),
                      !.log = FindLog(RowsWhere(db.users, "ssn_last4", ssnLast4(arg)), 1)]
  /\ UNCHANGED <<encEnv, hmacEnv, lookupModule, HMAC_KEY, drawn, issued, digests, db, fs, now, logins>>

---------------------------------------------------------------------------
(* Specifications *)

\* One encryption and the decryptions of what it returned.
Next ==
  \/ SetEncryptionKey
  \/ GetEncryptionKeyCall
  \/ EncryptCall(PlainTexts, 1, NonceSpace(2))
  \/ DecryptIssued
  \/ DecryptTampered
  \/ DecryptInserted
  \/ DecryptOther

Spec == Init /\ [][Next]_vars

\* Repeated encryptions.
NextNonce ==
  \/ SetEncryptionKey
  \/ EncryptCall(RepeatTexts, MaxCalls, NonceSpace(MaxNonce))

SpecNonce == Init /\ [][NextNonce]_vars

\* The lookup facility.
NextLookup ==
  \/ SetHmacKey
  \/ LoadLookupModule
  \/ SsnLookupHashCall
  \/ SsnLast4Call

SpecLookup == Init /\ [][NextLookup]_vars

\* Both facilities in a process that imports src/lib/crypto.ts.
NextModule ==
  \/ SetHmacKey
  \/ SetEncryptionKey
  \/ LoadLookupModule
  \/ ImportedEncryptCall
  \/ ImportedDecryptCall
  \/ LookupHashCall(1)
  \/ SsnLast4Call

SpecModule == Init /\ [][NextModule]_vars

\* Signup and the scripts of the lookup scheme.
NextSignup ==
  \/ SetHmacKeyTo(DbHmacEnvValues)
  \/ LoadLookupModule
  \/ SetEncryptionKeyTo(DbEncEnvValues)
  \/ Signup
  \/ LookupMigrationRun
  \/ RemoveSsnColumnRun
  \/ CheckRun
  \/ FindRun

SpecSignup == Init /\ [][NextSignup]_vars

\* Rows stored as they are and the command migrate-ssns.
NextMigrate ==
  \/ SetHmacKeyTo(DbHmacEnvValues)
  \/ SetEncryptionKeyTo(DbEncEnvValues)
  \/ SeedUser
  \/ MigrateSsnsRun
  \/ LookupMigrationRun
  \/ FindRun

SpecMigrate == Init /\ [][NextMigrate]_vars

\* Signup and login requests handled one at a time.
NextSessions ==
  \/ SetHmacKeyTo({HmacKeyOne})
  \/ LoadLookupModule
  \/ Tick
  \/ SignupCall
  \/ LoginBegin(1)
  \/ LoginDelete
  \/ LoginInsert

SpecSessions == Init /\ [][NextSessions]_vars

\* Signup and logout requests.
NextLogout ==
  \/ SetHmacKeyTo({HmacKeyOne})
  \/ LoadLookupModule
  \/ SignupCall
  \/ Logout

SpecLogout == Init /\ [][NextLogout]_vars

\* Two login requests at a time.
NextLogins ==
  \/ SetHmacKeyTo({HmacKeyOne})
  \/ LoadLookupModule
  \/ Tick
  \/ FirstSignup
  \/ LoginBegin(2)
  \/ LoginDelete
  \/ LoginInsert

SpecLogins == Init /\ [][NextLogins]_vars

\* The command lines of db-utils on test.db, bank.db and backup.db.
NextCli ==
  \/ SetHmacKeyTo({HmacKeyOne})
  \/ SeedUser
  \/ SeedBank
  \/ MigrateSsnsCli
  \/ BackupDb

SpecCli == Init /\ [][NextCli]_vars

---------------------------------------------------------------------------
(* Properties *)

\* The message of the error decipher.final() throws when the tag does not
\* verify.
AuthError == "Unsupported state or unable to authenticate data"

\* t is b with the character in its final position replaced by another one.
IsFinalTamper(t, b) ==
  /\ Len(b) > 0
  /\ Len(t) = Len(b)
  /\ SubSeq(t, 1, Len(b) - 1) = SubSeq(b, 1, Len(b) - 1)
  /\ t[Len(b)] # b[Len(b)]

\* The most recent operation is a decryptSensitiveData call.
Decrypted == res.op = "decrypt"

\* C1 as stated: decryptSensitiveData(encryptSensitiveData(s)) returns exactly
\* s for every string s when the resolved key is the same at both calls.
C1_RoundTripEveryString ==
  \A i \in 1..Len(issued) :
    (Decrypted /\ res.arg = issued[i].blob /\ res.keyRes.value = issued[i].key)
      => res.out = Ok(issued[i].plaintext)

\* C1 amended: the round trip returns exactly s for every string s without an
\* unpaired surrogate (the empty string and non-ASCII strings included); in
\* any case it returns a string, the UTF-8 decoding of the UTF-8 encoding of s.
C1_RoundTripWellFormed ==
  \A i \in 1..Len(issued) :
    (Decrypted /\ res.arg = issued[i].blob /\ res.keyRes.value = issued[i].key)
      => /\ res.out = Ok(Utf8Decode(Utf8Encode(issued[i].plaintext)))
         /\ IsWellFormed(issued[i].plaintext) => res.out = Ok(issued[i].plaintext)

\* A non-ASCII string (the surrogate pair of U+1F600) came back from the round
\* trip.
C1_Witness ==
  /\ Decrypted
  /\ Len(issued) = 1
  /\ res.arg = issued[1].blob
  /\ issued[1].plaintext = <<55357, 56832>>
  /\ res.out = Ok(<<55357, 56832>>)

\* C2 as stated: with the key unchanged, a blob whose final character was
\* replaced by any other character makes decryptSensitiveData raise the
\* authentication error; it never returns a value.
C2_FinalCharTamperDetected ==
  \A i \in 1..Len(issued) :
    (Decrypted /\ IsFinalTamper(res.arg, issued[i].blob) /\ res.keyRes.value = issued[i].key)
      => res.out = Err(AuthError)

\* C3: a blob produced under key K1 decrypts only under K1; under any other
\* 32-byte key decryptSensitiveData raises the authentication error.
C3_WrongKeyRejected ==
  \A i \in 1..Len(issued) :
    (Decrypted /\ res.arg = issued[i].blob /\ Len(res.keyRes.value) = KEY_LENGTH)
      => /\ res.keyRes.value # issued[i].key => res.out = Err(AuthError)
         /\ res.out.kind = "ok" => res.keyRes.value = issued[i].key
         /\ res.keyRes.value = issued[i].key => res.out.kind = "ok"

\* A blob produced under one key was rejected under another key.
C3_Witness ==
  /\ Decrypted
  /\ Len(issued) = 1
  /\ res.arg = issued[1].blob
  /\ issued[1].key = DevKey
  /\ res.keyRes.value = Base64Decode(WrongKeyStr)
  /\ res.out = Err(AuthError)

\* C4: any two calls of encryptSensitiveData return different blobs, also
\* with the same plaintext under the same key.
C4_FreshBlobPerCall ==
  \A i, j \in 1..Len(issued) : i # j => issued[i].blob # issued[j].blob

\* MaxCalls calls with one plaintext under one key have returned.
C4_Witness ==
  /\ Len(issued) = MaxCalls
  /\ \A i \in 1..Len(issued) :
       issued[i].plaintext = Ssn1 /\ issued[i].key = issued[1].key

\* C5: with the lookup key fixed, every call of ssnLookupHash(v) returns the
\* same hex digest for the same v.
C5_DigestDeterministic ==
  \A i, j \in 1..Len(digests) :
    digests[i].ssn = digests[j].ssn => digests[i].digest = digests[j].digest

\* The same SSN was hashed twice, and another one once.
C5_Witness ==
  /\ Len(digests) = 3
  /\ digests[1].ssn = Ssn1
  /\ digests[2].ssn = Ssn2
  /\ digests[3].ssn = Ssn1
  /\ digests[1].digest # digests[2].digest

\* C6: with no lookup key configured (unset or empty) the lookup operation
\* raises the missing-key error and no digest is ever computed.
C6_MissingLookupKey ==
  (lookupModule # "unloaded" /\ ~Truthy(hmacEnv))
    => /\ lookupModule = "failed"
       /\ digests = <<>>
       /\ res.op = "ssnLookupHash" => res.out = Err("SSN_HMAC_KEY is required")

\* ssnLookupHash was called with an empty SSN_HMAC_KEY.
C6_Witness ==
  /\ hmacEnv = <<>>
  /\ res.op = "ssnLookupHash"
  /\ res.arg = Ssn1
  /\ res.out.kind = "error"

\* C7 as stated: for every input that decodes to fewer than IV_LENGTH +
\* TAG_LENGTH bytes decryptSensitiveData fails with an error distinct from
\* the authentication error.
C7_ShortBlobDistinctError ==
  (Decrypted /\ Len(Base64Decode(res.arg)) < IV_LENGTH + TAG_LENGTH)
    => res.out.kind = "error" /\ res.out.error # AuthError

\* C8 as stated: an input that is not valid base64 is never decoded and
\* decrypted; decryptSensitiveData fails on it.
C8_InvalidBase64Rejected ==
  (Decrypted /\ ~IsValidBase64(res.arg)) => res.out.kind = "error"

\* The decoded input is the decoding of a blob issued under the key of the
\* call.
Authentic ==
  \E i \in 1..Len(issued) :
    /\ Base64Decode(res.arg) = Base64Decode(issued[i].blob)
    /\ res.keyRes.value = issued[i].key

\* C9: on an input of at least IV_LENGTH + TAG_LENGTH decoded bytes, under a
\* 32-byte key, decryptSensitiveData has one outcome for everything that is
\* not an issued blob under its own key, tampered blob and wrong key alike:
\* the authentication error, with one message.
C9_OneAuthFailure ==
  (Decrypted /\ Len(Base64Decode(res.arg)) >= IV_LENGTH + TAG_LENGTH
             /\ Len(res.keyRes.value) = KEY_LENGTH)
    => IF Authentic THEN res.out.kind = "ok" ELSE res.out = Err(AuthError)

\* A blob with its final '=' replaced by 'A' (one more decoded byte) was
\* rejected under the key that produced it.
C9_Witness ==
  /\ Decrypted
  /\ Len(issued) = 1
  /\ res.arg = ReplaceLast(issued[1].blob, 65)
  /\ issued[1].blob[Len(issued[1].blob)] = 61
  /\ Base64Decode(res.arg) # Base64Decode(issued[1].blob)
  /\ res.keyRes.value = issued[1].key
  /\ res.out = Err(AuthError)

\* C10 as stated: when ENCRYPTION_KEY is set (not empty) and decodes to a length
\* other than KEY_LENGTH, key resolution fails, and no call returns a value.
C10_InvalidKeyRejected ==
  (res.op \in {"getEncryptionKey", "encrypt", "decrypt"}
     /\ Truthy(encEnv) /\ Len(Base64Decode(encEnv)) # KEY_LENGTH)
    => res.keyRes.kind = "error" /\ res.out.kind = "error"

\* The key the code resolves from environment value v: its base64 decoding,
\* or the development key when v is unset or empty.
KeyInEffect(v) == IF Truthy(v) THEN Base64Decode(v) ELSE DevKey

\* C11: every decryptSensitiveData call resolves the key from the value
\* ENCRYPTION_KEY has at that call: a blob encrypted under K decrypts exactly
\* when the key in effect at the decrypt call is K, whatever the key was set
\* to in between.
C11_PerCallKeyResolution ==
  \A i \in 1..Len(issued) :
    (Decrypted /\ res.arg = issued[i].blob)
      => /\ res.keyRes = Ok(KeyInEffect(encEnv))
         /\ res.out.kind = "ok" <=> KeyInEffect(encEnv) = issued[i].key

\* A blob encrypted under the test key was rejected after ENCRYPTION_KEY was
\* changed to another key.
C11_Witness ==
  /\ Decrypted
  /\ Len(issued) = 1
  /\ res.arg = issued[1].blob
  /\ issued[1].key = Base64Decode(TestKeyStr)
  /\ encEnv = WrongKeyStr
  /\ res.out = Err(AuthError)

\* C12: while ENCRYPTION_KEY is absent (unset or empty) every key resolution
\* warns and returns the one 32-byte development key, and a blob encrypted
\* without a configured key decrypts in a later call without one; while a key
\* is configured the resolution returns that key and does not warn.
C12_LoudDevFallback ==
  (res.op \in {"getEncryptionKey", "encrypt", "decrypt"})
    => /\ ~Truthy(encEnv) => /\ res.warned
                             /\ res.keyRes = Ok(DevKey)
                             /\ Len(DevKey) = KEY_LENGTH
       /\ Truthy(encEnv) => /\ ~res.warned
                            /\ res.keyRes = Ok(Base64Decode(encEnv))
       /\ \A i \in 1..Len(issued) :
            (Decrypted /\ ~Truthy(encEnv) /\ issued[i].warned /\ res.arg = issued[i].blob)
              => res.out.kind = "ok"

\* An SSN encrypted without a configured key was decrypted, with the
\* warning, in a later call without a configured key.
C12_Witness ==
  /\ Decrypted
  /\ encEnv = Undefined
  /\ Len(issued) = 1
  /\ issued[1].warned
  /\ issued[1].plaintext = Ssn1
  /\ res.arg = issued[1].blob
  /\ res.warned
  /\ res.out = Ok(Ssn1)

\* The last four of the digits of s, or all of them when there are fewer.
LastDigits(s) ==
  LET d == SelectSeq(s, IsDigit)
  IN IF Len(d) <= 4 THEN d ELSE SubSeq(d, Len(d) - 3, Len(d))

\* C14: ssnLast4 returns the last four digits that remain after removing
\* every non-digit character, all of them when fewer than four remain (the
\* empty string when none does), and raises for no input;
\* ssnLast4('123-45-6789') is '6789'.
C14_DisplayFragment ==
  (res.op = "ssnLast4" /\ lookupModule = "loaded")
    => /\ res.out = Ok(LastDigits(res.arg))
       /\ res.arg = DashedSsn => res.out = Ok(<<54, 55, 56, 57>>)

\* ssnLast4('123-45-6789') returned '6789'.
C14_Witness ==
  /\ res.op = "ssnLast4"
  /\ res.arg = DashedSsn
  /\ res.out = Ok(<<54, 55, 56, 57>>)

\* C13 as stated: an absent SSN_HMAC_KEY does not keep encryptSensitiveData
\* and decryptSensitiveData from working, and the value of ENCRYPTION_KEY
\* does not change what ssnLookupHash and ssnLast4 return.
C13_FacilitiesIndependent ==
  /\ (res.op = "encrypt" /\ Len(KeyInEffect(encEnv)) = KEY_LENGTH) => res.out.kind = "ok"
  /\ \A i \in 1..Len(issued) :
       (Decrypted /\ res.arg = issued[i].blob /\ KeyInEffect(encEnv) = issued[i].key)
         => res.out.kind = "ok"
  /\ (res.op = "ssnLookupHash" /\ lookupModule = "loaded")
       => res.out = Ok(LookupDigest(hmacEnv, res.arg))
  /\ (res.op = "ssnLast4" /\ lookupModule = "loaded") => res.out = Ok(LastDigits(res.arg))

---------------------------------------------------------------------------
(* The users table *)

\* The most recent operation is a signup that inserted a row.
SignedUp == res.op = "signup" /\ res.out.kind = "ok"

LookupMigrated == res.op = "migrate-ssn" /\ res.out.kind = "ok"

\* Row i holds what the signup recorded as issued[j] stored.
StoredBy(i, j) == db.users[i].ssn = issued[j].blob

\* C16: after two users signed up with the same SSN and migrate-ssn.js has
\* run, both rows carry the same ssn_hash, the lookup digest of that SSN
\* under SSN_HMAC_KEY (the hash `check` looks for), and an ssn_last4 equal to
\* the last four digits of that SSN.
C16_DuplicateDetection ==
  LookupMigrated =>
    \A i, j \in 1..Len(db.users) :
      (/\ i < j
       /\ i \in DOMAIN issued /\ j \in DOMAIN issued
       /\ StoredBy(i, i) /\ StoredBy(j, j)
       /\ issued[i].plaintext = issued[j].plaintext)
        => /\ db.users[i].ssn_hash = db.users[j].ssn_hash
           /\ db.users[i].ssn_hash = verify_ssnLookupHash(issued[i].plaintext, hmacEnv)
           /\ db.users[i].ssn_last4 = LastDigits(issued[i].plaintext)
           /\ db.users[j].ssn_last4 = LastDigits(issued[j].plaintext)

\* Row u holds a value in the old ssn column.
UnderOldScheme(u) == u.ssn \notin {Null, <<>>}

\* Row u holds a lookup hash or a display fragment.
UnderLookupScheme(u) == u.ssn_hash \notin {Null, <<>>} \/ u.ssn_last4 \notin {Null, <<>>}

\* C17: in every state, before, between and after the runs of the migration
\* scripts, no user row holds both a value in the ssn column and a non-empty
\* ssn_hash or ssn_last4.
C17_SchemeExclusivity ==
  \A i \in 1..Len(db.users) :
    ~(UnderOldScheme(db.users[i]) /\ UnderLookupScheme(db.users[i]))

---------------------------------------------------------------------------
(* migrate-ssns *)

\* The step is a run of migrate-ssns that got as far as reading the rows.
MigrateSsnsStep ==
  /\ res'.op = "migrate-ssns"
  /\ ~HmacKeyMissing(hmacEnv)
  /\ "ssn" \in db.columns

\* The output of the run of this step reports row id as one with an invalid
\* SSN format.
ReportedInvalid(id) ==
  \E l \in 1..Len(res'.log) :
    res'.log[l].msg = "User has invalid SSN format" /\ res'.log[l].id = id

\* What C18 says a run does to row u, v being the row after the run.
ClassifiedAsStated(u, v) ==
  IF decryptSensitiveData(u.ssn, encEnv).kind = "ok" THEN v = u
  ELSE IF Is9Digits(u.ssn)
    THEN v.ssn # u.ssn /\ decryptSensitiveData(v.ssn, encEnv) = Ok(u.ssn)
  ELSE v = u /\ ReportedInvalid(u.id)

\* C18: for every user row a run of migrate-ssns leaves the row unchanged
\* when its value decrypts, replaces the value by its encryption when it does
\* not decrypt and is exactly 9 digits, and leaves the row unchanged and
\* reports it when it does not decrypt and is not 9 digits.
C18_MigrationClassification ==
  [][MigrateSsnsStep =>
       /\ Len(db'.users) = Len(db.users)
       /\ \A i \in 1..Len(db.users) : ClassifiedAsStated(db.users[i], db'.users[i])]_vars

\* The most recent operation is a run of migrate-ssns that got as far as
\* reading the rows.
MigrateSsnsRan ==
  /\ res.op = "migrate-ssns"
  /\ ~HmacKeyMissing(hmacEnv)
  /\ "ssn" \in db.columns

\* The output of the most recent run has a line that names row id as skipped.
LoggedSkipped(id) ==
  \E l \in 1..Len(res.log) :
    res.log[l].msg = "User has invalid SSN format" /\ res.log[l].id = id

\* The output of the most recent run ends with lines that are about no
\* single row, after the last line about a row.
EndsWithReport ==
  \E l \in 3..Len(res.log) :
    /\ res.log[l].id = 0
    /\ \A m \in 1..Len(res.log) : res.log[m].id # 0 => m < l

\* C19: a run of migrate-ssns over a batch of rows is not aborted by a row
\* whose processing fails: the run ends without an error, every row that
\* holds a value either holds one that decrypts or was logged as skipped, and
\* when rows were skipped the output ends with a report after the lines of
\* the rows.
C19_RowIsolation ==
  MigrateSsnsRan =>
    /\ res.out.kind = "ok"
    /\ \A i \in 1..Len(db.users) :
         \/ db.users[i].ssn = <<>>
         \/ decryptSensitiveData(db.users[i].ssn, encEnv).kind = "ok"
         \/ LoggedSkipped(db.users[i].id)
    /\ (\E i \in 1..Len(db.users) : LoggedSkipped(db.users[i].id)) => EndsWithReport

\* The commands an operator runs on the database, `check` excepted.
QuietCommands == {"migrate-ssns", "migrate-ssn", "remove-ssn-column", "find"}

\* t is a full SSN in clear: nine digits, bare or in the form 123-45-6789.
IsFullSsn(t) == Len(t) \in 9..11 /\ Is9Digits(StripNonDigits(t))

\* C20: whatever the table holds, no command other than `check` writes a
\* full plaintext SSN to its output, the warnings of migrate-ssns about rows
\* with an invalid SSN format and the per-row messages of migrate-ssn.js
\* included.
C20_NoSsnInOutput ==
  res.op \in QuietCommands =>
    \A l \in 1..Len(res.log) : ~IsFullSsn(res.log[l].text)

---------------------------------------------------------------------------
(* signup, login and logout *)

\* Some users row holds this address.
BelongsToUser(email) == \E i \in 1..Len(db.users) : db.users[i].email = email

\* C21: a signup that reaches the handler (its input passed the schema)
\* with an address that already belongs to a users row fails with CONFLICT
\* and leaves the users and sessions tables unchanged.
C21_DuplicateEmail ==
  [][(/\ res' # res
      /\ res'.op = "signup"
      /\ lookupModule = "loaded"
      /\ res'.out.error # "BAD_REQUEST"
      /\ BelongsToUser(res'.email))
       => /\ res'.out = Err("CONFLICT")
          /\ db'.users = db.users
          /\ db'.sessions = db.sessions]_vars

\* C21 witness: a signup was refused with CONFLICT for the address of a user
\* who has a session.
C21_Witness ==
  /\ res.op = "signup"
  /\ res.out = Err("CONFLICT")
  /\ BelongsToUser(res.email)
  /\ Len(db.sessions) > 0

\* The users row of the address E as signup stores it.
UserOf(email) == UserByEmail(ToLowerCase(email))

\* The most recent operation is a login with an address and a password that
\* a signup accepted and stored, and it has ended; the failure to set the
\* cookie on a response object without set is left to C23.
LoginOfSignedUp ==
  /\ res.op = "login"
  /\ res.out.kind # "none"
  /\ res.out.error # SetHeaderError
  /\ IsEmail(res.email)
  /\ BelongsToUser(ToLowerCase(res.email))
  /\ bcryptCompare(res.arg, UserOf(res.email).password)

\* C22: after signup succeeded with the address E and the password P, E with
\* upper-case letters included, a login with the same E and P succeeds and
\* returns the user and a token.
C22_SignupThenLogin ==
  LoginOfSignedUp =>
    /\ res.out.kind = "ok"
    /\ res.user = UserOf(res.email).id
    /\ res.out.value = res.cookie

\* C23: a signup call that fails, for whatever reason, leaves no users row
\* and no sessions row of its own behind.
C23_SignupAllOrNothing ==
  [][(res' # res /\ res'.op = "signup" /\ res'.out.kind = "error")
       => (db'.users = db.users /\ db'.sessions = db.sessions)]_vars

\* C24: while login requests for the same user interleave, the delete and
\* the insert of each being steps of their own, no state has more than one
\* sessions row for a user.
C24_ConcurrentLogins ==
  \A u \in 1..Len(db.users) : Len(SessionsOf(db.sessions, u)) <= 1

\* No request is being handled: every call so far has ended.
NoCallRunning == logins = <<>>

\* Between calls every user has exactly one sessions row.
OneSessionEach ==
  NoCallRunning => \A u \in 1..Len(db.users) : Len(SessionsOf(db.sessions, u)) = 1

\* After a successful signup or login the sessions of its user are the one
\* row with the token the call returned.
HoldsReturnedToken ==
  (res.op \in {"signup", "login"} /\ res.out.kind = "ok")
    => SessionsOf(db.sessions, res.user) = <<SessionRow(res.user, res.out.value)>>

\* A step changes the sessions of user u only if it is a step of a login of
\* u or the signup that creates u.
OnlyOwnSessions ==
  \A u \in 1..Len(db'.users) :
    SessionsOf(db'.sessions, u) # SessionsOf(db.sessions, u)
      => \/ res'.op = "login" /\ BelongsToUser(res'.email) /\ UserByEmail(res'.email).id = u
         \/ res'.op = "signup" /\ u = Len(db'.users) /\ Len(db.users) < u

\* C25: with signup and login calls executed one at a time, each user has
\* exactly one sessions row, it holds the token the user's most recent
\* successful signup or login returned, and a login touches no session of
\* another user.
C25_SingleSession ==
  /\ [](OneSessionEach /\ HoldsReturnedToken)
  /\ [][OnlyOwnSessions]_vars

\* C25 witness: the first of two users has logged in again, at a later
\* second than the signup, and each of the two has one session.
C25_Witness ==
  /\ NoCallRunning
  /\ Len(db.users) = 2
  /\ res.op = "login" /\ res.out.kind = "ok" /\ res.user = 1
  /\ SessionsOf(db.sessions, 1) = <<SessionRow(1, jwtSign(1, 1))>>
  /\ Len(SessionsOf(db.sessions, 2)) = 1

\* The step is a logout call; res'.arg is the token the request carries.
LogoutStep == res' # res /\ res'.op = "logout"

HasToken(rows, token) == \E i \in 1..Len(rows) : rows[i].token = token

\* C29: logout always answers success with a header that clears the cookie,
\* with the message 'Logged out successfully' for an authenticated user and
\* 'No active session' otherwise; when it reports 'Logged out successfully'
\* no sessions row with the caller's token is left, and it removes no other
\* session.
C29_Logout ==
  [][LogoutStep =>
       /\ res'.out.kind = "ok"
       /\ res'.cookie = <<>>
       /\ res'.message = (IF res'.user # 0 THEN "Logged out successfully"
                          ELSE "No active session")
       /\ res'.message = "Logged out successfully" => ~HasToken(db'.sessions, res'.arg)
       /\ db'.sessions = SelectSeq(db.sessions,
                                   LAMBDA r : r.token # res'.arg \/ res'.user = 0)]_vars

---------------------------------------------------------------------------
(* The commands run again *)

\* An encryptSensitiveData call returned v.
IsIssuedBlob(v) == \E j \in 1..Len(issued) : issued[j].blob = v

\* No row holds nine digits: what a run of migrate-ssns that reached its end
\* leaves behind.
AlreadyMigrated == \A i \in 1..Len(db.users) : ~Is9Digits(db.users[i].ssn)

\* C26: a run of migrate-ssns leaves every row alone whose value came from
\* an encryption, whatever ENCRYPTION_KEY is at the time of the run, and a
\* run on a database that was already migrated changes no row.
C26_MigrationIdempotent ==
  [][res'.op = "migrate-ssns" =>
       /\ Len(db'.users) = Len(db.users)
       /\ \A i \in 1..Len(db.users) :
            IsIssuedBlob(db.users[i].ssn) => db'.users[i] = db.users[i]
       /\ AlreadyMigrated => db'.users = db.users]_vars

\* C26 witness: the run just made, under another key than the one that
\* encrypted row 1, warned about the row and left it as it was.
C26_Witness ==
  /\ res.op = "migrate-ssns"
  /\ res.out.kind = "ok"
  /\ Len(db.users) > 0
  /\ \E j \in 1..Len(issued) :
       /\ issued[j].blob = db.users[1].ssn
       /\ issued[j].key # KeyInEffect(encEnv)
  /\ \E l \in 1..Len(res.log) :
       res.log[l].msg = "User has invalid SSN format" /\ res.log[l].id = 1

\* A row has its ssn_hash and ssn_last4 set.
LookupSet(u) == u.ssn_hash \notin {Null, <<>>} /\ u.ssn_last4 # Null

\* C27: a run of migrate-ssn.js modifies no row outside its SELECT (the rows
\* without ssn and those that have a non-empty ssn_hash); when it ends either
\* every selected row has ssn_hash and ssn_last4 set or none of them was
\* changed; and a run right after a run that succeeded changes nothing.
C27_LookupMigrationAtomic ==
  [][res'.op = "migrate-ssn" =>
       /\ Len(db'.users) = Len(db.users)
       /\ \A i \in 1..Len(db.users) :
            ~NeedsLookupMigration(db.users[i]) => db'.users[i] = db.users[i]
       /\ \/ \A i \in SelectedRows(db.users) : LookupSet(db'.users[i])
          \/ \A i \in SelectedRows(db.users) : db'.users[i] = db.users[i]
       /\ (res.op = "migrate-ssn" /\ res.out.kind = "ok") => db'.users = db.users]_vars

\* C27 witness: the run failed at its second row, and neither of the two
\* rows it had selected has a hash.
C27_Witness ==
  /\ res.op = "migrate-ssn"
  /\ res.out = Err("Migration failed")
  /\ Len(res.log) = 2
  /\ Len(db.users) = 2
  /\ \A i \in 1..2 : db.users[i].ssn # Null /\ db.users[i].ssn_hash = Null


\* C28: migrate-ssns changes bank.db only after it printed the warning and
\* read an answer that is not 'no' or 'n'; after such an answer no row of any
\* file has changed; a run that printed no warning changed no row of bank.db.
Warned(r) == \E l \in 1..Len(r.log) : r.log[l] = WarningLine
C28_ConfirmationGuard ==
  [][res'.op = "migrate-ssns" =>
       /\ (fs'.bank # fs.bank => Warned(res') /\ ~Cancels(res'.arg))
       /\ (Warned(res') /\ Cancels(res'.arg) => db' = db /\ fs' = fs)
       /\ (~Warned(res') => fs'.bank = fs.bank)]_vars

\* C30: when backup.db exists, backup-db reports that it does and leaves the
\* file as it is.
C30_BackupKept ==
  [][res'.op = "backup-db" /\ res'.out.kind = "ok" /\ fs.hasBackup =>
       /\ \E l \in 1..Len(res'.log) : res'.log[l] = ExistsLine
       /\ fs'.backup = fs.backup]_vars

=========================================================================
